---- MODULE Spec2Model ----
(***************************************************************************)
(* Model of the review/app analytics pipeline of lab1_data_engineering:    *)
(*   src/src/transform/transform_data.py            (transform_reviews,    *)
(*                                      transform_apps, strip_html, main)  *)
(*   src/src/transform/run_pipeline_c.py            (main)                 *)
(*   src/src/transform/compute_app_kpis.py          (AppAgg, KPIs)         *)
(*   src/src/transform/compute_daily_metrics.py     (daily metrics)        *)
(*   src/src/transform/flag_inconsistent_sentiment.py (sentiment flagger)  *)
(*                                                                         *)
(* Text is a sequence of one-character strings, so that parsing, ordering  *)
(* and substring search are computed character by character.  A JSON value *)
(* is a tagged record: [t |-> "null"], [t |-> "int", n |-> 5],             *)
(* [t |-> "str", s |-> <<"a">>], [t |-> "float", milli |-> 4700],          *)
(* [t |-> "nan"], [t |-> "bool", b |-> TRUE].  A JSON object is a function *)
(* from its keys to JSON values; a missing key is outside its DOMAIN.      *)
(***************************************************************************)
EXTENDS Integers, Sequences, FiniteSets, TLC

VARIABLES
    \* SpecRecord: the loop body of transform_reviews on one raw object
    raw_obj,        \* the raw review object handed to the loop body
    out_rec,        \* <<the processed record written for it>>, <<>> before
    \* SpecTransform: runs of transform_reviews against the file system
    in_exists,      \* os.path.exists(in_path)
    in_file,        \* the lines of the raw reviews file
    max_lines,      \* the max_lines argument: Null (None) or JInt(n)
    dest,           \* the file at out_path: [exists, lines]
    tmp,            \* the file at out_path + ".tmp": [exists, lines]
    pc,             \* where the run is: idle, writing, closed, done, failed, killed
    in_pos,         \* input lines the generator has consumed
    count,          \* the local `count`
    run,            \* 1 for the first run, 2 for the second
    dest_at_start,  \* history: what out_path held when the current run began
    first_end,      \* history: how the first run ended ("" while it runs)
    replaced,       \* history: os.replace has run in the current run
    \* SpecAgg: compute_app_kpis, then compute_daily_metrics, on one file
    proc_file,      \* the lines of the processed reviews file
    agg_pc,         \* kpi_read, daily_read, done
    agg_pos,        \* lines the running aggregator has read
    aggregates,     \* compute_app_kpis: appId -> AppAgg
    kpi_csv,        \* app_kpis.csv: [exists, header, lines]
    daily,          \* compute_daily_metrics: date -> counters
    daily_csv,      \* daily_metrics.csv: [exists, header, lines]
    \* SpecSent: the sentiment flagger on one review
    sent_review,    \* the review object read from the processed file
    sent_polarity,  \* <<score_text(content)>>, <<>> before it is computed
    sent_flag,      \* <<is_contradictory(review)>>, <<>> before it is computed
    \* SpecRow: _iter_reviews and the loop body on one row of the input
    row_src,        \* "csv" or "jsonl": what in_path ends with
    row_in,         \* csv: the DictReader row, <<key, value>> pairs in column
                    \* order; jsonl: the object json.loads returned
    row_obj,        \* <<the object _iter_reviews yields>>, <<>> before
    row_out,        \* <<the record written for it>>, <<>> before
    \* SpecHtml: strip_html on one text
    html_in,        \* the argument: a str value or None
    html_out,       \* <<the text returned>>, <<>> before
    \* SpecApps: transform_apps on one raw apps file
    apps_raw,       \* the list json.load returned
    apps_pc,        \* loop, done, failed
    apps_pos,       \* elements of the list the loop has taken
    processed,      \* the local list `processed`
    apps_out,       \* the file at out_path: [exists, lines]
    \* SpecMain: the entry points against the files they need
    entry,          \* which main() runs
    raw_apps,       \* the raw apps file: absent, good, bad
    raw_reviews,    \* the raw reviews file: absent, good, bad
    proc_reviews,   \* the processed reviews file: absent, good, bad
    main_pc,        \* the step main() is about to take
    touched,        \* the files this run has created or written
    main_err,       \* the path named by the error raised, "" when none
    \* SpecConc: two runs of transform_reviews on one destination
    paths,          \* path -> inode number, 0 when the path does not exist
    inodes,         \* inode number -> the records of the file
    c_pc,           \* run -> start, writing, closed, done, failed
    c_fd,           \* run -> the inode its open file refers to, 0 when none
    c_off,          \* run -> the offset of its open file, in records
    c_buf,          \* run -> records written but not yet flushed
    c_out,          \* run -> the records the run writes, its complete output
    \* SpecReaders: flag_inconsistent_sentiment.main after the aggregators
    flag_pc,        \* read, done, failed
    flag_pos,       \* lines the flagger has read
    flag_rows,      \* the local list `rows`
    flag_csv        \* inconsistent_sentiment_reviews.csv: [exists, header, lines]

recVars == <<raw_obj, out_rec>>
trVars == <<in_exists, in_file, max_lines, dest, tmp, pc, in_pos, count, run,
            dest_at_start, first_end, replaced>>
aggVars == <<proc_file, agg_pc, agg_pos, aggregates, kpi_csv, daily, daily_csv>>
sentVars == <<sent_review, sent_polarity, sent_flag>>
rowVars == <<row_src, row_in, row_obj, row_out>>
htmlVars == <<html_in, html_out>>
appsVars == <<apps_raw, apps_pc, apps_pos, processed, apps_out>>
mainVars == <<entry, raw_apps, raw_reviews, proc_reviews, main_pc, touched, main_err>>
concVars == <<paths, inodes, c_pc, c_fd, c_off, c_buf, c_out>>
flagVars == <<flag_pc, flag_pos, flag_rows, flag_csv>>
extVars == <<rowVars, htmlVars, appsVars, mainVars, concVars, flagVars>>
coreVars == <<recVars, trVars, aggVars, sentVars>>
vars == <<recVars, trVars, aggVars, sentVars, extVars>>

(***************************************************************************)
(* Characters and text                                                     *)
(***************************************************************************)
\* The characters of the model's texts, in ASCII order (Python compares
\* str by code point).
Alphabet ==
    <<" ","&","'","+",",","-",".","/","0","1","2","3","4","5","6","7","8","9",
      ":",";","<",">","A","B","C","D","E","F","G","H","I","J","K","L","M","N",
      "O","P","Q","R","S","T","U","V","W","X","Y","Z","_","a","b","c","d","e",
      "f","g","h","i","j","k","l","m","n","o","p","q","r","s","t","u","v","w",
      "x","y","z">>

Ord(c) == CHOOSE i \in 1..Len(Alphabet) : Alphabet[i] = c

Digits == <<"0","1","2","3","4","5","6","7","8","9">>
UpperCase ==
    <<"A","B","C","D","E","F","G","H","I","J","K","L","M","N","O","P","Q","R",
      "S","T","U","V","W","X","Y","Z">>
LowerCase ==
    <<"a","b","c","d","e","f","g","h","i","j","k","l","m","n","o","p","q","r",
      "s","t","u","v","w","x","y","z">>

IsDigit(c) == \E i \in 1..10 : Digits[i] = c
DigitVal(c) == (CHOOSE i \in 1..10 : Digits[i] = c) - 1
IsSpace(c) == c = " "

\* str.lower() on one character
LowerChar(c) ==
    IF \E i \in 1..26 : UpperCase[i] = c
    THEN LowerCase[CHOOSE i \in 1..26 : UpperCase[i] = c]
    ELSE c

\* str.lower()
lower(s) == [i \in 1..Len(s) |-> LowerChar(s[i])]

\* s[i-1 : j] in Python terms: the characters at positions i..j (1-based)
Slice(s, i, j) == IF j < i THEN <<>> ELSE SubSeq(s, i, j)

\* str.strip(): leading and trailing whitespace removed
strip(s) ==
    LET keep == {i \in 1..Len(s) : ~IsSpace(s[i])}
    IN  IF keep = {} THEN <<>>
        ELSE LET lo == CHOOSE i \in keep : \A j \in keep : i <= j
                 hi == CHOOSE i \in keep : \A j \in keep : j <= i
             IN  SubSeq(s, lo, hi)

\* Python's `a < b` on str: lexicographic by code point
StrLt(a, b) ==
    \E k \in 1..(Len(b)) :
        /\ k <= Len(a) + 1
        /\ \A j \in 1..(k - 1) : a[j] = b[j]
        /\ \/ k = Len(a) + 1
           \/ (k <= Len(a) /\ Ord(a[k]) < Ord(b[k]))

\* Python's `term in t` on str
Contains(t, term) ==
    \E i \in 1..(Len(t) - Len(term) + 1) : SubSeq(t, i, i + Len(term) - 1) = term

\* The value of the n decimal digits of s starting at i, or -1 when they are
\* not n digits of s.
NumAt(s, i, n) ==
    IF i + n - 1 > Len(s) \/ \E j \in i..(i + n - 1) : ~IsDigit(s[j])
    THEN -1
    ELSE LET RECURSIVE val(_)
             val(j) == IF j < i THEN 0 ELSE 10 * val(j - 1) + DigitVal(s[j])
         IN  val(i + n - 1)

\* A number written with at least `width` digits, zero-padded ("%02d")
RECURSIVE Pad(_, _)
Pad(n, width) ==
    IF width <= 1 /\ n < 10 THEN <<Digits[n + 1]>>
    ELSE Append(Pad(n \div 10, width - 1), Digits[(n % 10) + 1])

(***************************************************************************)
(* JSON values                                                             *)
(***************************************************************************)
Null == [t |-> "null"]
JInt(n) == [t |-> "int", n |-> n]
JStr(s) == [t |-> "str", s |-> s]
JBool(b) == [t |-> "bool", b |-> b]
\* a finite float, in thousandths (4700 is 4.7); NaN and the infinities apart
JFloat(milli) == [t |-> "float", milli |-> milli]
JNaN == [t |-> "nan"]
JInf == [t |-> "inf"]
\* a JSON array or nested object (its content is not looked at)
JList == [t |-> "list"]

\* dict.get(k): the value under k, None when the key is missing
Get(r, k) == IF k \in DOMAIN r THEN r[k] ELSE Null

\* Python truthiness of a JSON value
Truthy(v) ==
    CASE v.t = "null" -> FALSE
      [] v.t = "str" -> v.s # <<>>
      [] v.t = "int" -> v.n # 0
      [] v.t = "bool" -> v.b
      [] v.t = "float" -> v.milli # 0
      [] v.t = "arr" -> v.items # <<>>
      [] OTHER -> TRUE

\* `a or b`
Or(a, b) == IF Truthy(a) THEN a ELSE b

(***************************************************************************)
(* transform_data.py: safe_int                                             *)
(***************************************************************************)
\* int(str): surrounding whitespace stripped, an optional sign, then digits
\* with single underscores allowed between them.  [ok, n]
IntOfStr(s) ==
    LET b == strip(s)
        signed == b # <<>> /\ b[1] \in {"+", "-"}
        body == IF signed THEN Slice(b, 2, Len(b)) ELSE b
        wellformed ==
            /\ body # <<>>
            /\ \A i \in 1..Len(body) : IsDigit(body[i]) \/ body[i] = "_"
            /\ IsDigit(body[1]) /\ IsDigit(body[Len(body)])
            /\ \A i \in 1..(Len(body) - 1) : ~(body[i] = "_" /\ body[i + 1] = "_")
        digits == SelectSeq(body, IsDigit)
        mag == NumAt(digits, 1, Len(digits))
    IN  IF ~wellformed THEN [ok |-> FALSE, n |-> 0]
        ELSE [ok |-> TRUE, n |-> IF signed /\ b[1] = "-" THEN 0 - mag ELSE mag]

\* int(float): truncation toward zero
TruncMilli(milli) ==
    IF milli >= 0 THEN milli \div 1000 ELSE 0 - ((0 - milli) \div 1000)

\* safe_int with the failure branch returning the value it was given instead
\* of None (`except Exception: return v`).
safe_int_keep(v) ==
    CASE v.t = "null" -> Null
      [] v.t = "int" -> JInt(v.n)
      [] v.t = "bool" -> JInt(IF v.b THEN 1 ELSE 0)
      [] v.t = "float" -> JInt(TruncMilli(v.milli))
      [] v.t = "str" -> IF IntOfStr(v.s).ok THEN JInt(IntOfStr(v.s).n) ELSE v
      [] OTHER -> v

\* safe_int(v): int(v), None when v is None or int(v) raises
safe_int(v) ==
    CASE v.t = "null" -> Null
      [] v.t = "int" -> JInt(v.n)
      [] v.t = "bool" -> JInt(IF v.b THEN 1 ELSE 0)
      [] v.t = "float" -> JInt(TruncMilli(v.milli))
      [] v.t = "str" -> IF IntOfStr(v.s).ok THEN JInt(IntOfStr(v.s).n) ELSE Null
      [] OTHER -> Null    \* NaN: ValueError; inf: OverflowError; list: TypeError

(***************************************************************************)
(* datetime.strptime, isoformat, timestamp                                 *)
(***************************************************************************)
MonthAbbr ==
    <<<<"j","a","n">>, <<"f","e","b">>, <<"m","a","r">>, <<"a","p","r">>,
      <<"m","a","y">>, <<"j","u","n">>, <<"j","u","l">>, <<"a","u","g">>,
      <<"s","e","p">>, <<"o","c","t">>, <<"n","o","v">>, <<"d","e","c">>>>
MonthName ==
    <<<<"j","a","n","u","a","r","y">>, <<"f","e","b","r","u","a","r","y">>,
      <<"m","a","r","c","h">>, <<"a","p","r","i","l">>, <<"m","a","y">>,
      <<"j","u","n","e">>, <<"j","u","l","y">>, <<"a","u","g","u","s","t">>,
      <<"s","e","p","t","e","m","b","e","r">>, <<"o","c","t","o","b","e","r">>,
      <<"n","o","v","e","m","b","e","r">>, <<"d","e","c","e","m","b","e","r">>>>

\* The three formats the code parses with, as directive tokens: a directive
\* letter, "ws" for the format's blank (the regex \s+), or a literal.
FmtExact == <<"Y", "-", "m", "-", "d", "ws", "H", ":", "M", ":", "S">>
FmtAbbr == <<"b", "ws", "d", ",", "ws", "Y">>
FmtFull == <<"B", "ws", "d", ",", "ws", "Y">>

\* A run of n digits at i whose value lies in lo..hi
DigitAlt(s, i, n, lo, hi) ==
    IF NumAt(s, i, n) >= lo /\ NumAt(s, i, n) <= hi
    THEN {[len |-> n, val |-> NumAt(s, i, n)]}
    ELSE {}

NameAlt(names, s, i) ==
    {[len |-> Len(names[j]), val |-> j] :
        j \in {k \in 1..12 : /\ i + Len(names[k]) - 1 <= Len(s)
                             /\ lower(SubSeq(s, i, i + Len(names[k]) - 1)) = names[k]}}

\* The ways one directive of _strptime's regex matches s at position i, each
\* with the length it consumes and the value it reads.
Alts(tok, s, i) ==
    CASE tok = "Y" -> DigitAlt(s, i, 4, 0, 9999)
      [] tok = "m" -> DigitAlt(s, i, 2, 1, 12) \cup DigitAlt(s, i, 1, 1, 9)
      [] tok = "d" -> DigitAlt(s, i, 2, 1, 31) \cup DigitAlt(s, i, 1, 1, 9)
                      \cup (IF i <= Len(s) /\ s[i] = " "
                            THEN {[len |-> 2, val |-> a.val] :
                                     a \in DigitAlt(s, i + 1, 1, 1, 9)}
                            ELSE {})
      [] tok = "H" -> DigitAlt(s, i, 2, 0, 23) \cup DigitAlt(s, i, 1, 0, 9)
      [] tok = "M" -> DigitAlt(s, i, 2, 0, 59) \cup DigitAlt(s, i, 1, 0, 9)
      [] tok = "S" -> DigitAlt(s, i, 2, 0, 61) \cup DigitAlt(s, i, 1, 0, 9)
      [] tok = "b" -> NameAlt(MonthAbbr, s, i)
      [] tok = "B" -> NameAlt(MonthName, s, i)
      [] tok = "ws" -> {[len |-> n, val |-> 0] :
                           n \in {k \in 1..(Len(s) - i + 1) :
                                     \A j \in i..(i + k - 1) : IsSpace(s[j])}}
      [] OTHER -> IF i <= Len(s) /\ LowerChar(s[i]) = LowerChar(tok)
                  THEN {[len |-> 1, val |-> 0]}
                  ELSE {}

\* strptime's defaults for the fields a format does not set
DefaultFields == [Y |-> 1900, m |-> 1, d |-> 1, H |-> 0, M |-> 0, S |-> 0]

SetField(f, tok, val) ==
    CASE tok \in {"Y", "m", "d", "H", "M", "S"} -> [f EXCEPT ![tok] = val]
      [] tok \in {"b", "B"} -> [f EXCEPT !["m"] = val]
      [] OTHER -> f

\* The field assignments under which directives k.. of fmt match s from i to
\* its end (the regex must match and no unconverted data may remain).
RECURSIVE MatchFrom(_, _, _, _)
MatchFrom(fmt, k, s, i) ==
    IF k > Len(fmt)
    THEN (IF i = Len(s) + 1 THEN {DefaultFields} ELSE {})
    ELSE UNION {{SetField(f, fmt[k], a.val) : f \in MatchFrom(fmt, k + 1, s, i + a.len)} :
                   a \in Alts(fmt[k], s, i)}

IsLeap(y) == (y % 4 = 0 /\ y % 100 # 0) \/ y % 400 = 0

DaysInMonth(y, m) ==
    IF m = 2 THEN (IF IsLeap(y) THEN 29 ELSE 28)
    ELSE IF m \in {4, 6, 9, 11} THEN 30 ELSE 31

\* datetime(...) accepts the fields
ValidDateTime(f) ==
    /\ f.Y >= 1 /\ f.Y <= 9999
    /\ f.m >= 1 /\ f.m <= 12
    /\ f.d >= 1 /\ f.d <= DaysInMonth(f.Y, f.m)
    /\ f.H <= 23 /\ f.M <= 59 /\ f.S <= 59

\* datetime.strptime(s, fmt): [ok, dt]; ok = FALSE stands for ValueError
strptime(s, fmt) ==
    LET found == {f \in MatchFrom(fmt, 1, s, 1) : ValidDateTime(f)}
    IN  IF found = {} THEN [ok |-> FALSE, dt |-> DefaultFields]
        ELSE [ok |-> TRUE, dt |-> CHOOSE f \in found : TRUE]

\* dt.replace(tzinfo=timezone.utc).isoformat()
isoformat(dt) ==
    Pad(dt.Y, 4) \o <<"-">> \o Pad(dt.m, 2) \o <<"-">> \o Pad(dt.d, 2) \o <<"T">>
    \o Pad(dt.H, 2) \o <<":">> \o Pad(dt.M, 2) \o <<":">> \o Pad(dt.S, 2)
    \o <<"+","0","0",":","0","0">>

\* Days from 1970-01-01 to the first day of year y (y >= 1970 or before)
LeapsBefore(y) == ((y - 1) \div 4) - ((y - 1) \div 100) + ((y - 1) \div 400)
DaysBeforeYear(y) == 365 * (y - 1970) + LeapsBefore(y) - LeapsBefore(1970)

RECURSIVE DaysBeforeMonth(_, _)
DaysBeforeMonth(y, m) ==
    IF m = 1 THEN 0 ELSE DaysBeforeMonth(y, m - 1) + DaysInMonth(y, m - 1)

\* int(dt.timestamp()) of the datetime left naive and read in a local zone
\* one hour east of UTC
timestamp_local(dt) ==
    (DaysBeforeYear(dt.Y) + DaysBeforeMonth(dt.Y, dt.m) + dt.d - 1) * 86400
    + dt.H * 3600 + dt.M * 60 + dt.S - 3600

\* int(dt.timestamp()) of the datetime taken as UTC
timestamp(dt) ==
    (DaysBeforeYear(dt.Y) + DaysBeforeMonth(dt.Y, dt.m) + dt.d - 1) * 86400
    + dt.H * 3600 + dt.M * 60 + dt.S

(***************************************************************************)
(* transform_data.py: parse_human_datetime and the loop body of            *)
(* transform_reviews                                                       *)
(***************************************************************************)
\* parse_human_datetime(s) for a str s: None when empty, the ISO text of the
\* first format that parses, else the original text stripped.
parse_human_datetime(s) ==
    IF s = <<>> THEN Null
    ELSE IF strptime(s, FmtExact).ok THEN JStr(isoformat(strptime(s, FmtExact).dt))
    ELSE IF strptime(s, FmtAbbr).ok THEN JStr(isoformat(strptime(s, FmtAbbr).dt))
    ELSE IF strptime(s, FmtFull).ok THEN JStr(isoformat(strptime(s, FmtFull).dt))
    ELSE JStr(strip(s))

\* at_iso of one record (transform_reviews, the `at` block)
at_iso_of(at_raw) ==
    IF at_raw.t = "str" /\ at_raw.s # <<>>
    THEN IF strptime(at_raw.s, FmtExact).ok
         THEN JStr(isoformat(strptime(at_raw.s, FmtExact).dt))
         ELSE parse_human_datetime(at_raw.s)
    ELSE Null

\* at_epoch of one record: set only on the exact-format branch
at_epoch_of(at_raw) ==
    IF at_raw.t = "str" /\ at_raw.s # <<>> /\ strptime(at_raw.s, FmtExact).ok
    THEN JInt(timestamp(strptime(at_raw.s, FmtExact).dt))
    ELSE Null

\* The record the loop body of transform_reviews writes for a raw object:
\* r = dict(obj) with at_iso, at_epoch, score and thumbsUpCount set.
transform_record(obj) ==
    [k \in DOMAIN obj \cup {"at_iso", "at_epoch", "score", "thumbsUpCount"} |->
        CASE k = "at_iso" -> at_iso_of(Get(obj, "at"))
          [] k = "at_epoch" -> at_epoch_of(Get(obj, "at"))
          [] k = "score" -> safe_int(Get(obj, "score"))
          [] k = "thumbsUpCount" -> safe_int(Get(obj, "thumbsUpCount"))
          [] OTHER -> obj[k]]

(***************************************************************************)
(* Files                                                                   *)
(***************************************************************************)
Absent == [exists |-> FALSE, lines |-> <<>>]
File(lines) == [exists |-> TRUE, lines |-> lines]

\* csv.DictWriter writing the header only once there is a row to write
CsvFileLazyHeader(fieldnames, rows) ==
    [exists |-> TRUE,
     header |-> IF rows = <<>> THEN <<>> ELSE fieldnames,
     lines |-> rows]

\* A CSV file written with csv.DictWriter: writeheader(), then one writerow()
\* per row.  `header` is the header row, `lines` the data rows.
CsvFile(fieldnames, rows) ==
    [exists |-> TRUE, header |-> fieldnames, lines |-> rows]

\* The variables of a component that a specification does not run
RecordIdle == raw_obj = [score |-> Null] /\ out_rec = <<>>
TransformIdle ==
    /\ in_exists = FALSE /\ in_file = <<>> /\ max_lines = Null
    /\ dest = Absent /\ tmp = Absent
    /\ pc = "off" /\ in_pos = 0 /\ count = 0 /\ run = 1
    /\ dest_at_start = Absent /\ first_end = "" /\ replaced = FALSE
AggIdle ==
    /\ proc_file = <<>> /\ agg_pc = "off" /\ agg_pos = 0
    /\ aggregates = <<>> /\ kpi_csv = Absent
    /\ daily = <<>> /\ daily_csv = Absent
SentIdle ==
    /\ sent_review = [score |-> Null] /\ sent_polarity = <<>> /\ sent_flag = <<>>
RowIdle ==
    /\ row_src = "off" /\ row_in = <<>> /\ row_obj = <<>> /\ row_out = <<>>
HtmlIdle == html_in = Null /\ html_out = <<>>
AppsIdle ==
    /\ apps_raw = <<>> /\ apps_pc = "off" /\ apps_pos = 0
    /\ processed = <<>> /\ apps_out = Absent
MainIdle ==
    /\ entry = "off" /\ raw_apps = "absent" /\ raw_reviews = "absent"
    /\ proc_reviews = "absent" /\ main_pc = "off" /\ touched = {} /\ main_err = ""
ConcIdle ==
    /\ paths = <<>> /\ inodes = <<>> /\ c_pc = <<>> /\ c_fd = <<>>
    /\ c_off = <<>> /\ c_buf = <<>> /\ c_out = <<>>
FlagIdle ==
    /\ flag_pc = "off" /\ flag_pos = 0 /\ flag_rows = <<>> /\ flag_csv = Absent
ExtIdle ==
    /\ RowIdle /\ HtmlIdle /\ AppsIdle /\ MainIdle /\ ConcIdle /\ FlagIdle
CoreIdle ==
    /\ RecordIdle /\ TransformIdle /\ AggIdle /\ SentIdle


(***************************************************************************)
(* SpecRecord: the loop body of transform_reviews on one raw object       *)
(***************************************************************************)
\* Raw `score` values: null, integers in and out of 1..5, floats, NaN and
\* infinity, a boolean, a list, numeric and non-numeric strings.
RawScores ==
    {Null,
     JInt(5),
     JInt(1),
     JInt(0),
     JInt(7),
     JInt(-2),
     JFloat(4700),
     JFloat(-1500),
     JNaN,
     JInf,
     JBool(TRUE),
     JList,
     JStr(<<"5">>),
     JStr(<<" ","4"," ">>),
     JStr(<<"1","2">>),
     JStr(<<"-","3">>),
     JStr(<<"1","_","0">>),
     JStr(<<"a","b","c">>),
     JStr(<<"4",".","5">>),
     JStr(<<>>)}

\* Raw `at` values: null, a number, the empty string, exact-format strings
\* (valid, with one-digit fields, a leap day, an impossible day, second 60),
\* human-formatted dates, unparseable and blank strings.
RawAts ==
    {Null,
     JInt(1762610054),
     JStr(<<>>),
     JStr(<<"2","0","2","5","-","1","1","-","0","8"," ","1","3",":","5","4",":","1","4">>),
     JStr(<<"2","0","2","5","-","1","-","5"," ","3",":","0","4",":","0","5">>),
     JStr(<<"2","0","2","4","-","0","2","-","2","9"," ","2","3",":","5","9",":","5","9">>),
     JStr(<<"1","9","7","0","-","0","1","-","0","1"," ","0","0",":","0","0",":","0","0">>),
     JStr(<<"1","9","6","9","-","1","2","-","3","1"," ","2","3",":","5","9",":","5","9">>),
     JStr(<<"2","0","0","0","-","0","3","-","0","1"," ","0","0",":","0","0",":","0","1">>),
     JStr(<<"2","0","2","5","-","0","2","-","3","0"," ","1","0",":","0","0",":","0","0">>),
     JStr(<<"2","0","2","5","-","1","1","-","0","8"," ","1","3",":","5","4",":","6","0">>),
     JStr(<<"J","a","n"," ","5",","," ","2","0","2","6">>),
     JStr(<<"J","A","N","U","A","R","Y"," ","5",","," "," ","2","0","2","6">>),
     JStr(<<"y","e","s","t","e","r","d","a","y">>),
     JStr(<<" "," "," ">>),
     JStr(<<" ","2","0","2","5","-","1","1","-","0","8"," ","1","3",":","5","4",":","1","4">>),
     JStr(<<"0","8","/","1","1","/","2","0","2","5">>)}

\* A raw object holding the given fields; a field in `absent` is missing.
RawObj(score, at, thumbs, absent) ==
    [k \in {"score", "at", "thumbsUpCount"} \ absent |->
        CASE k = "score" -> score
          [] k = "at" -> at
          [] OTHER -> thumbs]

RawThumbs == {JInt(12), JStr(<<"n","/","a">>)}

RawObjs ==
    {RawObj(sc, at, th, {}) : sc \in RawScores, at \in RawAts, th \in RawThumbs}
    \cup {RawObj(sc, Null, Null, {"at", "thumbsUpCount"}) : sc \in RawScores}
    \cup {RawObj(Null, at, Null, {"score", "thumbsUpCount"}) : at \in RawAts}

InitRecord ==
    /\ raw_obj \in RawObjs
    /\ out_rec = <<>>
    /\ TransformIdle
    /\ AggIdle
    /\ SentIdle
    /\ ExtIdle

\* One pass of the loop body: the record is built and written.
TransformRecord ==
    /\ out_rec = <<>>
    /\ out_rec' = <<transform_record(raw_obj)>>
    /\ UNCHANGED <<raw_obj, trVars, aggVars, sentVars, extVars>>

NextRecord == TransformRecord

SpecRecord == InitRecord /\ [][NextRecord]_vars

(***************************************************************************)
(* SpecTransform: transform_reviews against the file system                *)
(*                                                                         *)
(* A line of the raw JSONL file is [kind, obj]:                            *)
(*   blank    empty after strip()                     (skipped)            *)
(*   json     json.loads gives the object obj                              *)
(*   wrapped  json.loads fails; the text from the first { to the last }    *)
(*            is the object obj                                            *)
(*   garbage  both parses fail                        (skipped)            *)
(*   scalar   json.loads gives a number, which dict() refuses (TypeError)  *)
(* What is written is counted in whole records: the bytes of a record      *)
(* reach the temporary file in some order, never the destination.          *)
(***************************************************************************)
MaxLines == 3
MaxCap == 2

ObjA == [score |-> JInt(5), at |-> JStr(<<"2","0","2","5","-","1","1","-","0","8"," ","1","3",":","5","4",":","1","4">>)]
ObjB == [score |-> JStr(<<"a","b","c">>), at |-> JStr(<<"y","e","s","t","e","r","d","a","y">>)]
NoObj == [score |-> Null]

Lines ==
    {[kind |-> "json", obj |-> ObjA], [kind |-> "json", obj |-> ObjB],
     [kind |-> "wrapped", obj |-> ObjA], [kind |-> "garbage", obj |-> NoObj],
     [kind |-> "scalar", obj |-> NoObj], [kind |-> "blank", obj |-> NoObj]}

\* What the paths may hold before the first run
OldDest == File(<<[score |-> JInt(1)]>>)
StaleTmp == File(<<[score |-> JInt(2)]>>)

SeqsUpTo(S, n) == UNION {[1..k -> S] : k \in 0..n}

\* _iter_reviews_jsonl on one line: whether it yields a value
Yields(line) == line.kind \in {"json", "wrapped", "scalar"}
\* dict(obj) succeeds
IsMapping(line) == line.kind \in {"json", "wrapped"}

InitTransform ==
    /\ in_file \in SeqsUpTo(Lines, MaxLines)
    /\ in_exists \in (IF in_file = <<>> THEN BOOLEAN ELSE {TRUE})
    /\ max_lines \in {Null} \cup {JInt(n) : n \in 0..MaxCap}
    /\ dest \in {Absent, OldDest}
    /\ tmp \in {Absent, StaleTmp}
    /\ pc = "idle" /\ in_pos = 0 /\ count = 0 /\ run = 1
    /\ dest_at_start = dest /\ first_end = "" /\ replaced = FALSE
    /\ RecordIdle
    /\ AggIdle
    /\ SentIdle
    /\ ExtIdle

\* open(tmp_out, "a") instead of "w": what the temporary file held is kept.
OpenTmpAppend == File(tmp.lines)

\* open(tmp_out, "w"): the temporary file is created or truncated.
OpenTmp == File(<<>>)

\* transform_reviews up to the start of the loop: the existence check, then
\* the temporary file is opened.
Start ==
    /\ pc = "idle"
    /\ IF in_exists
       THEN /\ tmp' = OpenTmp
            /\ pc' = "writing"
       ELSE /\ pc' = "failed"     \* FileNotFoundError
            /\ UNCHANGED tmp
    /\ in_pos' = 0 /\ count' = 0
    /\ UNCHANGED <<in_exists, in_file, max_lines, dest, run, dest_at_start,
                   first_end, replaced, recVars, aggVars, sentVars, extVars>>

\* The generator advances by one input line and, when it yields, the loop
\* body runs: the record is written and counted, and the loop breaks at the
\* cap; a value dict() refuses raises out of the with block.
Step ==
    /\ pc = "writing"
    /\ in_pos < Len(in_file)
    /\ in_pos' = in_pos + 1
    /\ LET line == in_file[in_pos + 1]
       IN  IF ~Yields(line)
           THEN UNCHANGED <<tmp, count, pc>>
           ELSE IF ~IsMapping(line)
           THEN /\ pc' = "failed"
                /\ UNCHANGED <<tmp, count>>
           ELSE /\ tmp' = File(Append(tmp.lines, transform_record(line.obj)))
                /\ count' = count + 1
                /\ pc' = IF Truthy(max_lines) /\ count + 1 >= max_lines.n
                         THEN "closed" ELSE "writing"
    /\ UNCHANGED <<in_exists, in_file, max_lines, dest, run, dest_at_start,
                   first_end, replaced, recVars, aggVars, sentVars, extVars>>

\* The generator is exhausted: the with block closes the temporary file.
EndOfInput ==
    /\ pc = "writing"
    /\ in_pos = Len(in_file)
    /\ pc' = "closed"
    /\ UNCHANGED <<in_exists, in_file, max_lines, dest, tmp, in_pos, count, run,
                   dest_at_start, first_end, replaced, recVars, aggVars, sentVars, extVars>>

\* os.replace moved into the loop: the destination is replaced while records
\* are still being written.
ReplaceEarly ==
    /\ pc \in {"writing", "closed"}
    /\ dest' = tmp
    /\ tmp' = Absent
    /\ replaced' = TRUE
    /\ pc' = "done"
    /\ UNCHANGED <<in_exists, in_file, max_lines, in_pos, count, run,
                   dest_at_start, first_end, recVars, aggVars, sentVars, extVars>>

\* os.replace(tmp_out, out_path): one atomic rename.
Replace ==
    /\ pc = "closed"
    /\ dest' = tmp
    /\ tmp' = Absent
    /\ replaced' = TRUE
    /\ pc' = "done"
    /\ UNCHANGED <<in_exists, in_file, max_lines, in_pos, count, run,
                   dest_at_start, first_end, recVars, aggVars, sentVars, extVars>>

\* The process is interrupted (killed, power loss) between two steps.
Kill ==
    /\ pc \in {"writing", "closed"}
    /\ pc' = "killed"
    /\ UNCHANGED <<in_exists, in_file, max_lines, dest, tmp, in_pos, count, run,
                   dest_at_start, first_end, replaced, recVars, aggVars, sentVars, extVars>>

\* The program is run a second time on the same input and paths.
SecondRun ==
    /\ run = 1
    /\ pc \in {"done", "failed", "killed"}
    /\ run' = 2
    /\ first_end' = pc
    /\ dest_at_start' = dest
    /\ replaced' = FALSE
    /\ pc' = "idle"
    /\ UNCHANGED <<in_exists, in_file, max_lines, dest, tmp, in_pos, count, recVars,
                   aggVars, sentVars, extVars>>

NextTransform == Start \/ Step \/ EndOfInput \/ Replace \/ Kill \/ SecondRun

SpecTransform == InitTransform /\ [][NextTransform]_vars

(***************************************************************************)
(* Claims about one processed record (SpecRecord)                          *)
(***************************************************************************)
Written == out_rec # <<>>
Out == out_rec[1]

\* C1 as stated: every record written by transform_reviews has a `score`
\* that is null or an integer in 1..5, whatever the raw `score` was.
C1_ScoreNullOrOneToFive ==
    Written =>
        \/ Out["score"] = Null
        \/ (Out["score"].t = "int" /\ Out["score"].n >= 1 /\ Out["score"].n <= 5)

\* C1 amended: every record written by transform_reviews has a `score` that
\* is null or an integer (never a string, float or boolean); the range 1..5
\* is not enforced.
C1_ScoreNullOrInt ==
    Written => Out["score"].t \in {"null", "int"}

\* C1 witness: a record was written whose raw score was a string and whose
\* processed score is the integer it spells.
C1_Witness ==
    /\ Written
    /\ Get(raw_obj, "score").t = "str"
    /\ Out["score"].t = "int"

\* A text of the shape YYYY-MM-DDTHH:MM:SS+00:00 naming a real date and time
IsIsoUtc(s) ==
    /\ Len(s) = 25
    /\ s[5] = "-" /\ s[8] = "-" /\ s[11] = "T" /\ s[14] = ":" /\ s[17] = ":"
    /\ SubSeq(s, 20, 25) = <<"+","0","0",":","0","0">>
    /\ NumAt(s, 1, 4) >= 1
    /\ NumAt(s, 6, 2) >= 1 /\ NumAt(s, 6, 2) <= 12
    /\ NumAt(s, 9, 2) >= 1 /\ NumAt(s, 9, 2) <= DaysInMonth(NumAt(s, 1, 4), NumAt(s, 6, 2))
    /\ NumAt(s, 12, 2) >= 0 /\ NumAt(s, 12, 2) <= 23
    /\ NumAt(s, 15, 2) >= 0 /\ NumAt(s, 15, 2) <= 59
    /\ NumAt(s, 18, 2) >= 0 /\ NumAt(s, 18, 2) <= 59

\* C2 as stated: in every record written by transform_reviews, `at_iso` is
\* null or a valid ISO-8601 timestamp in UTC, whatever the raw `at` was.
C2_AtIsoNullOrIsoUtc ==
    Written =>
        \/ Out["at_iso"] = Null
        \/ (Out["at_iso"].t = "str" /\ IsIsoUtc(Out["at_iso"].s))

(***************************************************************************)
(* Claims about runs of transform_reviews (SpecTransform)                  *)
(***************************************************************************)
\* The values the generator yields for the whole input, and those a run
\* that is cut at max_lines takes
Yielded == SelectSeq(in_file, Yields)
Taken ==
    IF Truthy(max_lines) /\ Len(Yielded) > max_lines.n
    THEN SubSeq(Yielded, 1, max_lines.n)
    ELSE Yielded
\* The complete output of a run on in_file
CompleteOutput == [i \in 1..Len(Taken) |-> transform_record(Taken[i].obj)]

\* C3: at every point of a run, interrupted and failing runs included, the
\* destination holds what it held when the run began (or is absent as it was
\* then) or the complete output of the run; it is replaced only once the
\* last record is in the temporary file and the run has left the loop.
C3_DestAllOrNothing ==
    /\ ~replaced => dest = dest_at_start
    /\ replaced => /\ dest = File(CompleteOutput)
                   /\ pc = "done"
                   /\ \A i \in 1..Len(Taken) : IsMapping(Taken[i])

\* C3 witness: a run stopped part-way (interrupted or failed) with some but
\* not all records in the temporary file, the destination holding its
\* previous content.
C3_Witness ==
    /\ pc \in {"killed", "failed"}
    /\ tmp.exists
    /\ Len(tmp.lines) >= 1 /\ Len(tmp.lines) < Len(Taken)
    /\ dest = OldDest

\* C4: when transform_reviews has run twice in sequence on the same input and
\* destination, the destination after the second run equals the destination
\* after the first, whatever the destination and a leftover temporary file
\* held before the first run.
C4_SecondRunSameOutput ==
    (run = 2 /\ pc \in {"done", "failed"} /\ first_end \in {"done", "failed"})
        => dest = dest_at_start

\* C4 witness: both runs completed and the destination holds two or more
\* records.
C4_Witness ==
    /\ run = 2 /\ pc = "done" /\ first_end = "done"
    /\ Len(dest.lines) >= 2

(***************************************************************************)
(* compute_app_kpis.py: AppAgg                                            *)
(*                                                                         *)
(* Averages and percentages are kept in thousandths: JFloat(2333) is the   *)
(* float 2.333 that round(x, 3) returns.                                   *)
(***************************************************************************)
\* round(p / q, 3) in thousandths, for p already in thousandths and q > 0:
\* the nearest integer to p / q, ties to even (Python's round).
Round3(p, q) ==
    LET f == p \div q
        r == p - f * q
    IN  IF 2 * r < q THEN f
        ELSE IF 2 * r > q THEN f + 1
        ELSE IF f % 2 = 0 THEN f ELSE f + 1

\* AppAgg(app_id=app_id)
NewAppAgg(app_id) ==
    [app_id |-> app_id, num_reviews |-> 0, rated_reviews |-> 0, score_sum |-> 0,
     low_rated_reviews |-> 0, first_date |-> Null, last_date |-> Null]

\* AppAgg.update with the low-rating test written `score < 2`
update_strict(self, score, date_str) ==
    LET rated == score # Null
        dated == Truthy(date_str)
    IN  [self EXCEPT
            !.num_reviews = @ + 1,
            !.rated_reviews = IF rated THEN @ + 1 ELSE @,
            !.score_sum = IF rated THEN @ + score.n ELSE @,
            !.low_rated_reviews = IF rated /\ score.n < 2 THEN @ + 1 ELSE @,
            !.first_date = IF dated /\ (@ = Null \/ StrLt(date_str.s, @.s))
                           THEN date_str ELSE @,
            !.last_date = IF dated /\ (@ = Null \/ StrLt(@.s, date_str.s))
                          THEN date_str ELSE @]

\* AppAgg.update with the low-rating test outside the `score is not None`
\* block, written `not score or score <= 2`
update_low_unrated(self, score, date_str) ==
    LET rated == score # Null
        dated == Truthy(date_str)
    IN  [self EXCEPT
            !.num_reviews = @ + 1,
            !.rated_reviews = IF rated THEN @ + 1 ELSE @,
            !.score_sum = IF rated THEN @ + score.n ELSE @,
            !.low_rated_reviews = IF ~rated \/ score.n <= 2 THEN @ + 1 ELSE @,
            !.first_date = IF dated /\ (@ = Null \/ StrLt(date_str.s, @.s))
                           THEN date_str ELSE @,
            !.last_date = IF dated /\ (@ = Null \/ StrLt(@.s, date_str.s))
                          THEN date_str ELSE @]

\* AppAgg.update(score, date_str): score is None or JInt, date_str any value
update(self, score, date_str) ==
    LET rated == score # Null
        dated == Truthy(date_str)
    IN  [self EXCEPT
            !.num_reviews = @ + 1,
            !.rated_reviews = IF rated THEN @ + 1 ELSE @,
            !.score_sum = IF rated THEN @ + score.n ELSE @,
            !.low_rated_reviews = IF rated /\ score.n <= 2 THEN @ + 1 ELSE @,
            !.first_date = IF dated /\ (@ = Null \/ StrLt(date_str.s, @.s))
                           THEN date_str ELSE @,
            !.last_date = IF dated /\ (@ = Null \/ StrLt(@.s, date_str.s))
                          THEN date_str ELSE @]

\* AppAgg.update raises TypeError: `date_str < self.first_date` between a
\* str and a number (an `at` that transform_reviews left as an epoch)
update_raises(self, date_str) ==
    /\ Truthy(date_str)
    /\ self.first_date # Null
    /\ date_str.t # self.first_date.t

\* AppAgg.to_row()
to_row(self) ==
    [appId |-> self.app_id,
     num_reviews |-> self.num_reviews,
     avg_rating |->
        IF self.rated_reviews > 0
        THEN JFloat(Round3(self.score_sum * 1000, self.rated_reviews))
        ELSE JStr(<<>>),
     low_rating_pct |->
        IF self.rated_reviews > 0
        THEN JFloat(Round3(self.low_rated_reviews * 100000, self.rated_reviews))
        ELSE JStr(<<>>),
     first_review_date |-> Or(self.first_date, JStr(<<>>)),
     last_review_date |-> Or(self.last_date, JStr(<<>>))]

\* sorted(keys, reverse=True)
RECURSIVE sorted_desc(_)
sorted_desc(S) ==
    IF S = {} THEN <<>>
    ELSE LET hi == CHOOSE x \in S : \A y \in S : y = x \/ StrLt(y, x)
         IN  <<hi>> \o sorted_desc(S \ {hi})

\* sorted(keys): the str keys in ascending order
RECURSIVE sorted(_)
sorted(S) ==
    IF S = {} THEN <<>>
    ELSE LET lo == CHOOSE x \in S : \A y \in S : y = x \/ StrLt(x, y)
         IN  <<lo>> \o sorted(S \ {lo})

\* compute_app_kpis: score_val of a record's score
kpi_score_val(score) ==
    CASE score.t = "int" -> JInt(score.n)
      [] score.t = "bool" -> JInt(IF score.b THEN 1 ELSE 0)
      [] score.t = "float" -> JInt(TruncMilli(score.milli))
      [] OTHER -> Null

(***************************************************************************)
(* compute_daily_metrics.py: _extract_date                                 *)
(***************************************************************************)
\* dt.date().isoformat()
date_isoformat(dt) == Pad(dt.Y, 4) \o <<"-">> \o Pad(dt.m, 2) \o <<"-">> \o Pad(dt.d, 2)

\* _extract_date(obj): None, or the date text the record is counted under
extract_date(obj) ==
    LET raw == Or(Get(obj, "at_iso"), Get(obj, "at"))
    IN  IF ~Truthy(raw) THEN Null
        ELSE IF raw.t # "str" THEN Null
        ELSE IF Len(raw.s) >= 10 /\ raw.s[5] = "-" /\ raw.s[8] = "-"
        THEN JStr(SubSeq(raw.s, 1, 10))
        ELSE IF strptime(raw.s, FmtExact).ok
        THEN JStr(date_isoformat(strptime(raw.s, FmtExact).dt))
        ELSE Null

\* compute_daily_metrics: the score as float, in thousandths, when numeric
daily_score_milli(score) ==
    CASE score.t = "int" -> score.n * 1000
      [] score.t = "bool" -> IF score.b THEN 1000 ELSE 0
      [] score.t = "float" -> score.milli
      [] OTHER -> 0
\* `rated = 1` set for every record, whatever its score
daily_rated_always(score) == 1

\* compute_daily_metrics: `rated`, 1 when the score is numeric
daily_rated(score) == IF score.t \in {"int", "bool", "float"} THEN 1 ELSE 0

(***************************************************************************)
(* SpecAgg: compute_app_kpis, then compute_daily_metrics, reading the same *)
(* processed reviews file (the order of run_pipeline_c.main).               *)
(*                                                                         *)
(* A line is [kind, obj]: json (an object), garbage (json.loads raises) or *)
(* blank.  Dates and appIds are str or null, scores int, str or null.      *)
(***************************************************************************)
MaxRecs == 3

AppA == <<"a","p","p",".","a">>
AppB == <<"a","p","p",".","b">>
Iso0108 == <<"2","0","2","5","-","0","1","-","0","1","T","0","8",":","0","0",":","0","0","+","0","0",":","0","0">>
Iso1010 == <<"2","0","2","5","-","0","1","-","0","1","T","1","0",":","1","0",":","0","0","+","0","0",":","0","0">>
Iso1231 == <<"2","0","2","4","-","1","2","-","3","1","T","2","3",":","5","9",":","5","9","+","0","0",":","0","0">>
\* an at_iso that the fallback of parse_human_datetime left as stripped text
Txt0109 == <<"2","0","2","5","-","0","1","-","0","1"," ","0","9",":","0","0",":","0","0">>
Raw0105 == <<"2","0","2","5","-","1","-","5"," ","3",":","0","4",":","0","5">>

\* A processed review with the given appId, score, at_iso and at
Review(app_id, score, at_iso, at) ==
    [appId |-> app_id, score |-> score, at_iso |-> at_iso, at |-> at]

ProcLines ==
    {[kind |-> "json", obj |-> Review(JStr(AppA), JInt(5), JStr(Iso0108), Null)],
     [kind |-> "json", obj |-> Review(JStr(AppA), JInt(1), JStr(Iso1231), Null)],
     [kind |-> "json", obj |-> Review(JStr(AppA), JInt(2), JStr(Txt0109), Null)],
     [kind |-> "json", obj |-> Review(JStr(AppA), JStr(<<"5">>), Null, JStr(Raw0105))],
     [kind |-> "json", obj |-> Review(JStr(AppB), Null, Null, Null)],
     [kind |-> "json", obj |-> Review(JStr(AppB), JInt(4), JStr(Iso1010), Null)],
     [kind |-> "json", obj |-> Review(Null, JInt(3), JStr(Iso0108), Null)],
     [kind |-> "json", obj |-> [score |-> JInt(4), at_iso |-> JStr(Iso1231)]],
     [kind |-> "garbage", obj |-> NoObj],
     [kind |-> "blank", obj |-> NoObj]}

InitAgg ==
    /\ proc_file \in SeqsUpTo(ProcLines, MaxRecs)
    /\ agg_pc = "kpi_read" /\ agg_pos = 0
    /\ aggregates = <<>> /\ kpi_csv = Absent
    /\ daily = <<>> /\ daily_csv = Absent
    /\ RecordIdle
    /\ TransformIdle
    /\ SentIdle
    /\ ExtIdle

\* compute_app_kpis: one pass of the reading loop; an exception of update
\* leaves compute_app_kpis before the CSV is opened
KpiLine ==
    /\ agg_pc = "kpi_read"
    /\ agg_pos < Len(proc_file)
    /\ agg_pos' = agg_pos + 1
    /\ LET line == proc_file[agg_pos + 1]
           app_id == Get(line.obj, "appId")
           score_val == kpi_score_val(Get(line.obj, "score"))
           date_str == Or(Get(line.obj, "at_iso"), Get(line.obj, "at"))
           cur == IF app_id.s \in DOMAIN aggregates
                  THEN aggregates[app_id.s]
                  ELSE NewAppAgg(app_id.s)
       IN  IF line.kind # "json" \/ ~Truthy(app_id)
           THEN UNCHANGED <<aggregates, agg_pc>>
           ELSE IF update_raises(cur, date_str)
           THEN agg_pc' = "failed" /\ UNCHANGED aggregates
           ELSE /\ aggregates' =
                    [k \in DOMAIN aggregates \cup {app_id.s} |->
                        IF k = app_id.s THEN update(cur, score_val, date_str)
                        ELSE aggregates[k]]
                /\ UNCHANGED agg_pc
    /\ UNCHANGED <<proc_file, kpi_csv, daily, daily_csv, recVars, trVars, sentVars, extVars>>

\* fieldnames of app_kpis.csv
KpiFields ==
    <<"appId", "num_reviews", "avg_rating", "low_rating_pct",
      "first_review_date", "last_review_date">>

\* compute_app_kpis: the end of the file is reached and the CSV is written
KpiWrite ==
    /\ agg_pc = "kpi_read"
    /\ agg_pos = Len(proc_file)
    /\ LET keys == sorted(DOMAIN aggregates)
       IN  kpi_csv' = CsvFile(KpiFields,
                              [i \in 1..Len(keys) |-> to_row(aggregates[keys[i]])])
    /\ agg_pc' = "daily_read"
    /\ agg_pos' = 0
    /\ UNCHANGED <<proc_file, aggregates, daily, daily_csv, recVars, trVars, sentVars, extVars>>

\* compute_daily_metrics: one pass of the reading loop
DailyLine ==
    /\ agg_pc = "daily_read"
    /\ agg_pos < Len(proc_file)
    /\ agg_pos' = agg_pos + 1
    /\ LET line == proc_file[agg_pos + 1]
           date_str == extract_date(line.obj)
           score == Get(line.obj, "score")
           cur == IF date_str.s \in DOMAIN daily
                  THEN daily[date_str.s]
                  ELSE [count_reviews |-> 0, count_rated |-> 0, sum_scores |-> 0]
       IN  IF line.kind # "json" \/ ~Truthy(date_str)
           THEN UNCHANGED daily
           ELSE daily' =
                    [k \in DOMAIN daily \cup {date_str.s} |->
                        IF k = date_str.s
                        THEN [count_reviews |-> cur.count_reviews + 1,
                              count_rated |-> cur.count_rated + daily_rated(score),
                              sum_scores |-> cur.sum_scores + daily_score_milli(score)]
                        ELSE daily[k]]
    /\ UNCHANGED <<proc_file, agg_pc, aggregates, kpi_csv, daily_csv, recVars, trVars, sentVars, extVars>>

\* One row of daily_metrics.csv
daily_row(date_str, d) ==
    [date |-> date_str,
     daily_num_reviews |-> d.count_reviews,
     daily_avg_rating |->
        IF d.count_rated > 0 THEN JFloat(Round3(d.sum_scores, d.count_rated))
        ELSE JStr(<<>>)]

\* fieldnames of daily_metrics.csv
DailyFields == <<"date", "daily_num_reviews", "daily_avg_rating">>

\* compute_daily_metrics: the end of the file is reached and the CSV is written
DailyWrite ==
    /\ agg_pc = "daily_read"
    /\ agg_pos = Len(proc_file)
    /\ LET keys == sorted(DOMAIN daily)
       IN  daily_csv' = CsvFile(DailyFields,
                                [i \in 1..Len(keys) |-> daily_row(keys[i], daily[keys[i]])])
    /\ agg_pc' = "done"
    /\ UNCHANGED <<proc_file, agg_pos, aggregates, kpi_csv, daily, recVars, trVars, sentVars, extVars>>

NextAgg == KpiLine \/ KpiWrite \/ DailyLine \/ DailyWrite

SpecAgg == InitAgg /\ [][NextAgg]_vars

(***************************************************************************)
(* Claims about the aggregators (SpecAgg)                                  *)
(***************************************************************************)
RECURSIVE SumOver(_, _)
\* The sum of f[i] over the finite set I
SumOver(I, f) ==
    IF I = {} THEN 0
    ELSE LET i == CHOOSE x \in I : TRUE
         IN  f[i] + SumOver(I \ {i}, f)

\* m is p / q rounded to the nearest integer
IsRounded(m, p, q) ==
    LET diff == IF p - m * q >= 0 THEN p - m * q ELSE m * q - p
    IN  2 * diff <= q

\* The lines of the processed file that are JSON objects
JsonLines == {i \in 1..Len(proc_file) : proc_file[i].kind = "json"}
ScoreOf(i) == Get(proc_file[i].obj, "score")
\* ... those carrying the appId a, and those whose score is a number
RecordsOfApp(a) == {i \in JsonLines : Get(proc_file[i].obj, "appId") = JStr(a)}
Numeric(I) == {i \in I : ScoreOf(i).t = "int"}
ScoreNums == [i \in 1..Len(proc_file) |-> IF ScoreOf(i).t = "int" THEN ScoreOf(i).n ELSE 0]

\* The row has the average of the scores of I, to 3 decimals, under `field`
AverageIs(value, I) ==
    IF Numeric(I) = {} THEN value = JStr(<<>>)
    ELSE /\ value.t = "float"
         /\ IsRounded(value.milli, 1000 * SumOver(Numeric(I), ScoreNums),
                      Cardinality(Numeric(I)))

\* C5: once app_kpis.csv is written, the row of each appId has num_reviews =
\* the number of well-formed records with that appId, avg_rating = (sum of
\* scores) / (records with a numeric score) and low_rating_pct = 100 *
\* (records with score <= 2) / (records with a numeric score), to 3
\* decimals, both empty when no record of the app has a numeric score.
C5_KpiRowValues ==
    kpi_csv.exists =>
        \A r \in 1..Len(kpi_csv.lines) :
            LET row == kpi_csv.lines[r]
                I == RecordsOfApp(row.appId)
                low == {i \in Numeric(I) : ScoreOf(i).n <= 2}
            IN  /\ row.num_reviews = Cardinality(I)
                /\ AverageIs(row.avg_rating, I)
                /\ IF Numeric(I) = {} THEN row.low_rating_pct = JStr(<<>>)
                   ELSE /\ row.low_rating_pct.t = "float"
                        /\ IsRounded(row.low_rating_pct.milli,
                                     100000 * Cardinality(low),
                                     Cardinality(Numeric(I)))

\* C5 witness: the file holds scores 5 and 1 for one app and a null score
\* for another; their rows read 2, 3.0, 50.0 and 1, "".
C5_Witness ==
    /\ kpi_csv.exists
    /\ \E r \in 1..Len(kpi_csv.lines) :
          /\ kpi_csv.lines[r].appId = AppA
          /\ kpi_csv.lines[r].num_reviews = 2
          /\ kpi_csv.lines[r].avg_rating = JFloat(3000)
          /\ kpi_csv.lines[r].low_rating_pct = JFloat(50000)
    /\ \E r \in 1..Len(kpi_csv.lines) :
          /\ kpi_csv.lines[r].appId = AppB
          /\ kpi_csv.lines[r].num_reviews = 1
          /\ kpi_csv.lines[r].avg_rating = JStr(<<>>)

\* The date string compute_app_kpis takes from a record (at_iso, else at)
DateStrOf(i) == Or(Get(proc_file[i].obj, "at_iso"), Get(proc_file[i].obj, "at"))
DatesOfApp(a) == {DateStrOf(i).s : i \in {j \in RecordsOfApp(a) : Truthy(DateStrOf(j))}}

\* The instant a date text names, in seconds since 1970-01-01T00:00:00Z:
\* YYYY-MM-DDTHH:MM:SS+00:00 or YYYY-MM-DD HH:MM:SS, taken as UTC
Instant(s) ==
    IF IsIsoUtc(s)
    THEN timestamp([Y |-> NumAt(s, 1, 4), m |-> NumAt(s, 6, 2), d |-> NumAt(s, 9, 2),
                    H |-> NumAt(s, 12, 2), M |-> NumAt(s, 15, 2), S |-> NumAt(s, 18, 2)])
    ELSE timestamp(strptime(s, FmtExact).dt)

\* C6 as stated: in every KPI row, first_review_date is the earliest and
\* last_review_date the most recent review date among the app's records that
\* carry a date string (at_iso, else at), obtained as the lexicographic
\* minimum and maximum of those strings; both are empty exactly when no
\* record of the app carries a date string.
C6_FirstLastAreEarliestLatest ==
    kpi_csv.exists =>
        \A r \in 1..Len(kpi_csv.lines) :
            LET row == kpi_csv.lines[r]
                D == DatesOfApp(row.appId)
                first == row.first_review_date.s
                last == row.last_review_date.s
            IN  IF D = {} THEN first = <<>> /\ last = <<>>
                ELSE /\ first \in D /\ last \in D
                     /\ \A s \in D : s = first \/ StrLt(first, s)
                     /\ \A s \in D : s = last \/ StrLt(s, last)
                     /\ \A s \in D : Instant(first) <= Instant(s)
                     /\ \A s \in D : Instant(s) <= Instant(last)

\* The lines counted under the date d by compute_daily_metrics
RecordsOfDate(d) == {i \in JsonLines : extract_date(proc_file[i].obj) = JStr(d)}

\* C7: once daily_metrics.csv is written, the row of each date has
\* daily_num_reviews = the number of well-formed records whose extracted
\* date is that date and daily_avg_rating = (sum of numeric scores) /
\* (records with a numeric score) of that date to 3 decimals, empty when no
\* record of the date has a numeric score.
C7_DailyRowValues ==
    daily_csv.exists =>
        \A r \in 1..Len(daily_csv.lines) :
            LET row == daily_csv.lines[r]
                I == RecordsOfDate(row.date)
            IN  /\ row.daily_num_reviews = Cardinality(I)
                /\ AverageIs(row.daily_avg_rating, I)

\* C7 witness: two reviews dated 2025-01-01 with scores 4 and 2 give the row
\* 2025-01-01, 2, 3.0.
C7_Witness ==
    /\ daily_csv.exists
    /\ \E r \in 1..Len(daily_csv.lines) :
          /\ daily_csv.lines[r].date = <<"2","0","2","5","-","0","1","-","0","1">>
          /\ daily_csv.lines[r].daily_num_reviews = 2
          /\ daily_csv.lines[r].daily_avg_rating = JFloat(3000)
          /\ {ScoreOf(i) : i \in RecordsOfDate(daily_csv.lines[r].date)} = {JInt(4), JInt(2)}

\* The keys of the records each aggregator counts
KpiKeyed == {i \in JsonLines : Truthy(Get(proc_file[i].obj, "appId"))}
DailyKeyed == {i \in JsonLines : Truthy(extract_date(proc_file[i].obj))}
StrictlyAscending(keys) ==
    \A i \in 1..Len(keys) : \A j \in 1..Len(keys) : i < j => StrLt(keys[i], keys[j])

\* C8: both aggregators emit exactly one row per distinct key of a
\* well-formed record (appId, resp. extracted date), in strictly ascending
\* key order, and records that are malformed JSON or lack the key are
\* counted in no row.
C8_OneRowPerKeyAscending ==
    agg_pc = "done" =>
        LET kkeys == [r \in 1..Len(kpi_csv.lines) |-> kpi_csv.lines[r].appId]
            dkeys == [r \in 1..Len(daily_csv.lines) |-> daily_csv.lines[r].date]
            knum == [r \in 1..Len(kpi_csv.lines) |-> kpi_csv.lines[r].num_reviews]
            dnum == [r \in 1..Len(daily_csv.lines) |-> daily_csv.lines[r].daily_num_reviews]
        IN  /\ StrictlyAscending(kkeys)
            /\ StrictlyAscending(dkeys)
            /\ {kkeys[r] : r \in 1..Len(kkeys)}
                  = {Get(proc_file[i].obj, "appId").s : i \in KpiKeyed}
            /\ {dkeys[r] : r \in 1..Len(dkeys)}
                  = {extract_date(proc_file[i].obj).s : i \in DailyKeyed}
            /\ SumOver(1..Len(knum), knum) = Cardinality(KpiKeyed)
            /\ SumOver(1..Len(dnum), dnum) = Cardinality(DailyKeyed)

\* C8 witness: both tables are written with two rows each from a file that
\* also holds a line counted by neither.
C8_Witness ==
    /\ agg_pc = "done"
    /\ Len(kpi_csv.lines) = 2 /\ Len(daily_csv.lines) = 2
    /\ \E i \in 1..Len(proc_file) : i \notin KpiKeyed /\ i \notin DailyKeyed

(***************************************************************************)
(* flag_inconsistent_sentiment.py: score_text, is_contradictory            *)
(***************************************************************************)
NEGATIVE_TERMS ==
    <<<<"b","a","d">>,
      <<"t","e","r","r","i","b","l","e">>,
      <<"h","o","r","r","i","b","l","e">>,
      <<"a","w","f","u","l">>,
      <<"w","o","r","s","t">>,
      <<"s","c","a","m">>,
      <<"r","e","f","u","n","d">>,
      <<"b","u","g">>,
      <<"b","r","o","k","e","n">>,
      <<"c","r","a","s","h">>,
      <<"d","o","e","s","n","'","t"," ","w","o","r","k">>,
      <<"d","o","e","s","n","t"," ","w","o","r","k">>,
      <<"w","a","s","t","e">>,
      <<"u","s","e","l","e","s","s">>>>

POSITIVE_TERMS ==
    <<<<"g","r","e","a","t">>,
      <<"e","x","c","e","l","l","e","n","t">>,
      <<"a","m","a","z","i","n","g">>,
      <<"l","o","v","e">>,
      <<"a","w","e","s","o","m","e">>,
      <<"f","a","n","t","a","s","t","i","c">>,
      <<"p","e","r","f","e","c","t">>,
      <<"v","e","r","y"," ","g","o","o","d">>,
      <<"w","o","r","k","s"," ","w","e","l","l">>,
      <<"h","e","l","p","f","u","l">>>>

\* any(term in t for term in terms)
AnyTermIn(terms, t) == \E i \in 1..Len(terms) : Contains(t, terms[i])

\* score_text without `t = text.lower()`
score_text_cased(text) ==
    LET neg == AnyTermIn(NEGATIVE_TERMS, text)
        pos == AnyTermIn(POSITIVE_TERMS, text)
    IN  IF neg /\ ~pos THEN -1
        ELSE IF pos /\ ~neg THEN 1
        ELSE 0

\* score_text(text)
score_text(text) ==
    LET t == lower(text)
        neg == AnyTermIn(NEGATIVE_TERMS, t)
        pos == AnyTermIn(POSITIVE_TERMS, t)
    IN  IF neg /\ ~pos THEN -1
        ELSE IF pos /\ ~neg THEN 1
        ELSE 0

\* is_contradictory with the first test written `score > 4`
is_contradictory_gt(review) ==
    LET score == Get(review, "score")
        content == Or(Get(review, "content"), JStr(<<>>))
    IN  IF score = Null THEN FALSE
        ELSE IF score_text(content.s) < 0 /\ score.n > 4 THEN TRUE
        ELSE IF score_text(content.s) > 0 /\ score.n <= 2 THEN TRUE
        ELSE FALSE

\* is_contradictory(review): score is None or JInt, content None or JStr
is_contradictory(review) ==
    LET score == Get(review, "score")
        content == Or(Get(review, "content"), JStr(<<>>))
    IN  IF score = Null THEN FALSE
        ELSE IF score_text(content.s) < 0 /\ score.n >= 4 THEN TRUE
        ELSE IF score_text(content.s) > 0 /\ score.n <= 2 THEN TRUE
        ELSE FALSE

(***************************************************************************)
(* SpecSent: the flagger's two functions on one review of the processed    *)
(* file.  A content is null or up to MaxWords words joined by blanks.      *)
(***************************************************************************)
MaxWords == 2

Vocabulary ==
    {<<"t","e","r","r","i","b","l","e">>,
     <<"A","m","a","z","i","n","g">>,
     <<"b","u","g","g","y">>,
     <<"B","A","D">>,
     <<"f","i","n","e">>,
     <<"w","o","r","k","s">>,
     <<"w","e","l","l">>}

RECURSIVE JoinWords(_)
JoinWords(ws) ==
    IF Len(ws) = 0 THEN <<>>
    ELSE IF Len(ws) = 1 THEN ws[1]
    ELSE ws[1] \o <<" ">> \o JoinWords(Tail(ws))

Contents == {JoinWords(ws) : ws \in SeqsUpTo(Vocabulary, MaxWords)}

SentReviews ==
    {[score |-> sc, content |-> c] :
        sc \in {Null} \cup {JInt(n) : n \in 1..5},
        c \in {Null} \cup {JStr(t) : t \in Contents}}

InitSent ==
    /\ sent_review \in SentReviews
    /\ sent_polarity = <<>>
    /\ sent_flag = <<>>
    /\ RecordIdle
    /\ TransformIdle
    /\ AggIdle
    /\ ExtIdle

\* score_text is applied to the review's content
ScoreText ==
    /\ sent_polarity = <<>>
    /\ sent_polarity' = <<score_text(Or(Get(sent_review, "content"), JStr(<<>>)).s)>>
    /\ UNCHANGED <<sent_review, sent_flag, recVars, trVars, aggVars, extVars>>

\* main's loop body: is_contradictory is applied to the review
Flag ==
    /\ sent_flag = <<>>
    /\ sent_flag' = <<is_contradictory(sent_review)>>
    /\ UNCHANGED <<sent_review, sent_polarity, recVars, trVars, aggVars, extVars>>

NextSent == ScoreText \/ Flag

SpecSent == InitSent /\ [][NextSent]_vars

(***************************************************************************)
(* Claims about the sentiment flagger (SpecSent)                           *)
(***************************************************************************)
\* The review's content as text ("" for a null content) and its score
ContentText == Or(Get(sent_review, "content"), JStr(<<>>)).s
SentScore == Get(sent_review, "score")

\* The lower-cased content holds a negative, resp. positive, term
HasNegative(t) == \E i \in 1..Len(NEGATIVE_TERMS) : Contains(lower(t), NEGATIVE_TERMS[i])
HasPositive(t) == \E i \in 1..Len(POSITIVE_TERMS) : Contains(lower(t), POSITIVE_TERMS[i])
PolarityNegative(t) == HasNegative(t) /\ ~HasPositive(t)
PolarityPositive(t) == HasPositive(t) /\ ~HasNegative(t)

\* C9: is_contradictory returns true exactly when the score is non-null and
\* (the content's polarity is negative and score >= 4, or it is positive and
\* score <= 2); a null score is never flagged, and a content matching both a
\* negative and a positive term is never flagged.
C9_FlaggedExactlyWhenContradictory ==
    sent_flag # <<>> =>
        /\ sent_flag[1] =
              (/\ SentScore # Null
               /\ \/ (PolarityNegative(ContentText) /\ SentScore.n >= 4)
                  \/ (PolarityPositive(ContentText) /\ SentScore.n <= 2))
        /\ SentScore = Null => sent_flag[1] = FALSE
        /\ (HasNegative(ContentText) /\ HasPositive(ContentText)) => sent_flag[1] = FALSE

\* C9 witness: a review with score 5 whose content holds the negative terms
\* "terrible" and "bug" is flagged.
C9_Witness ==
    /\ sent_flag = <<TRUE>>
    /\ SentScore = JInt(5)
    /\ Contains(ContentText, <<"t","e","r","r","i","b","l","e">>) /\ Contains(ContentText, <<"b","u","g">>)

UpperChar(c) ==
    IF \E i \in 1..26 : LowerCase[i] = c
    THEN UpperCase[CHOOSE i \in 1..26 : LowerCase[i] = c]
    ELSE c
upper(s) == [i \in 1..Len(s) |-> UpperChar(s[i])]

\* C10: score_text returns -1 exactly when the lower-cased text holds a
\* negative term and no positive term, +1 exactly when it holds a positive
\* term and no negative term, and 0 otherwise; the text written in another
\* letter case gives the same result.
C10_PolarityBySubstring ==
    sent_polarity # <<>> =>
        /\ (sent_polarity[1] = -1) = PolarityNegative(ContentText)
        /\ (sent_polarity[1] = 1) = PolarityPositive(ContentText)
        /\ (sent_polarity[1] = 0) =
              (~PolarityNegative(ContentText) /\ ~PolarityPositive(ContentText))
        /\ score_text(upper(ContentText)) = sent_polarity[1]
        /\ score_text(lower(ContentText)) = sent_polarity[1]

\* C10 witness: the text "BAD fine", whose only term is written in capitals,
\* is scored -1.
C10_Witness ==
    /\ sent_polarity = <<-1>>
    /\ ContentText = <<"B","A","D"," ","f","i","n","e">>

(***************************************************************************)
(* transform_data.py: _get_first, _normalize_review_row, _iter_reviews     *)
(*                                                                         *)
(* A mapping handed to _get_first is a sequence of <<key, value>> pairs in *)
(* the mapping's iteration order, with keys as text; the dict that         *)
(* _normalize_review_row builds is a function over its literal keys.       *)
(***************************************************************************)
\* lower_map.get(name): the dict comprehension keeps, for keys that are equal
\* once lower-cased, the value of the last one in iteration order.
lower_map_get(mapping, name) ==
    LET hits == {i \in 1..Len(mapping) : lower(mapping[i][1]) = name}
    IN  IF hits = {} THEN Null
        ELSE mapping[CHOOSE i \in hits : \A j \in hits : j <= i][2]

\* _get_first comparing the keys as they are written
RECURSIVE get_first_cased(_, _)
get_first_cased(mapping, candidates) ==
    IF candidates = <<>> THEN Null
    ELSE LET hits == {i \in 1..Len(mapping) : mapping[i][1] = Head(candidates)}
             v == IF hits = {} THEN Null
                  ELSE mapping[CHOOSE i \in hits : \A j \in hits : j <= i][2]
         IN  IF v # Null THEN v ELSE get_first_cased(mapping, Tail(candidates))

\* _get_first
RECURSIVE get_first(_, _)
get_first(mapping, candidates) ==
    IF candidates = <<>> THEN Null
    ELSE LET v == lower_map_get(mapping, lower(Head(candidates)))
         IN  IF v # Null THEN v ELSE get_first(mapping, Tail(candidates))

\* The candidate lists of _normalize_review_row, by canonical key
Candidates ==
    [reviewId |->
        <<<<"r","e","v","i","e","w","I","d">>,
          <<"r","e","v","i","e","w","_","i","d">>,
          <<"i","d">>>>,
     userName |->
        <<<<"u","s","e","r","N","a","m","e">>,
          <<"u","s","e","r","_","n","a","m","e">>,
          <<"a","u","t","h","o","r">>,
          <<"a","u","t","h","o","r","_","n","a","m","e">>>>,
     userImage |->
        <<<<"u","s","e","r","I","m","a","g","e">>,
          <<"u","s","e","r","_","i","m","a","g","e">>,
          <<"a","v","a","t","a","r">>>>,
     content |->
        <<<<"c","o","n","t","e","n","t">>,
          <<"r","e","v","i","e","w","_","t","e","x","t">>,
          <<"t","e","x","t">>,
          <<"b","o","d","y">>>>,
     score |->
        <<<<"s","c","o","r","e">>,
          <<"r","a","t","i","n","g">>,
          <<"s","t","a","r","s">>>>,
     thumbsUpCount |->
        <<<<"t","h","u","m","b","s","U","p","C","o","u","n","t">>,
          <<"l","i","k","e","s">>,
          <<"h","e","l","p","f","u","l","_","c","o","u","n","t">>>>,
     reviewCreatedVersion |->
        <<<<"r","e","v","i","e","w","C","r","e","a","t","e","d","V","e","r","s","i","o","n">>,
          <<"r","e","v","i","e","w","_","v","e","r","s","i","o","n">>>>,
     at |->
        <<<<"a","t">>,
          <<"t","i","m","e","s","t","a","m","p">>,
          <<"c","r","e","a","t","e","d","_","a","t">>>>,
     replyContent |->
        <<<<"r","e","p","l","y","C","o","n","t","e","n","t">>,
          <<"r","e","p","l","y","_","t","e","x","t">>>>,
     repliedAt |->
        <<<<"r","e","p","l","i","e","d","A","t">>,
          <<"r","e","p","l","y","_","t","i","m","e","s","t","a","m","p">>>>,
     appVersion |->
        <<<<"a","p","p","V","e","r","s","i","o","n">>,
          <<"a","p","p","_","v","e","r","s","i","o","n">>>>,
     appId |->
        <<<<"a","p","p","I","d">>,
          <<"a","p","p","_","i","d">>>>]

\* _normalize_review_row
normalize_review_row(row) ==
    [k \in DOMAIN Candidates |-> get_first(row, Candidates[k])]

(***************************************************************************)
(* SpecRow: _iter_reviews and the loop body of transform_reviews on one    *)
(* row, read from a CSV file or from a JSONL file                          *)
(***************************************************************************)
\* Header rows of CSV inputs
HdrCanonical == <<<<"s","c","o","r","e">>, <<"a","t">>, <<"a","p","p","I","d">>>>
HdrSynonym == <<<<"R","a","t","i","n","g">>, <<"t","i","m","e","s","t","a","m","p">>, <<"A","P","P","_","I","D">>>>
HdrBoth == <<<<"r","a","t","i","n","g">>, <<"s","c","o","r","e">>>>
HdrCase == <<<<"S","c","o","r","e">>, <<"s","c","o","r","e">>>>
Headers == {HdrCanonical, HdrSynonym, HdrBoth, HdrCase}

\* Cells of CSV rows: csv.DictReader gives every cell as text
Cells == {JStr(<<"5">>), JStr(<<>>), JStr(<<"2","0","2","5","-","1","1","-","0","8"," ","1","3",":","5","4",":","1","4">>)}

\* The rows csv.DictReader yields under a header: a row shorter than the
\* header has None for its missing trailing cells, and an empty row is
\* skipped.
CsvRows ==
    UNION {{[i \in 1..Len(h) |-> <<h[i], cells[i]>>] :
              cells \in {c \in [1..Len(h) -> Cells \cup {Null}] :
                            /\ c[1] # Null
                            /\ \A i \in 1..(Len(h) - 1) :
                                  c[i] = Null => c[i + 1] = Null}} :
           h \in Headers}

\* Objects of JSONL inputs
RowFull ==
    [reviewId |-> JStr(<<"r","1">>), userName |-> JStr(<<"a","n","n">>), userImage |-> Null,
     content |-> JStr(<<"f","i","n","e">>), score |-> JInt(5), thumbsUpCount |-> JInt(0),
     reviewCreatedVersion |-> Null, at |-> JStr(<<"2","0","2","5","-","1","1","-","0","8"," ","1","3",":","5","4",":","1","4">>),
     replyContent |-> Null, repliedAt |-> Null, appVersion |-> Null,
     appId |-> JStr(<<"a","p","p",".","a">>)]
RowSynonym == [rating |-> JInt(4), app_id |-> JStr(<<"a","p","p",".","a">>)]
JsonlObjs == {RowFull, RowSynonym, ObjA, ObjB}

InitRow ==
    /\ \/ row_src = "csv" /\ row_in \in CsvRows
       \/ row_src = "jsonl" /\ row_in \in JsonlObjs
    /\ row_obj = <<>>
    /\ row_out = <<>>
    /\ CoreIdle /\ HtmlIdle /\ AppsIdle /\ MainIdle /\ ConcIdle /\ FlagIdle

\* _iter_reviews_csv yields the normalized row.
IterCsv ==
    /\ row_src = "csv"
    /\ row_obj = <<>>
    /\ row_obj' = <<normalize_review_row(row_in)>>
    /\ UNCHANGED <<row_src, row_in, row_out, coreVars, htmlVars,
                   appsVars, mainVars, concVars, flagVars>>

\* _iter_reviews_jsonl yields the parsed object as it is.
IterJsonl ==
    /\ row_src = "jsonl"
    /\ row_obj = <<>>
    /\ row_obj' = <<row_in>>
    /\ UNCHANGED <<row_src, row_in, row_out, coreVars, htmlVars,
                   appsVars, mainVars, concVars, flagVars>>

\* The loop body of transform_reviews writes the record.
WriteRow ==
    /\ row_obj # <<>>
    /\ row_out = <<>>
    /\ row_out' = <<transform_record(row_obj[1])>>
    /\ UNCHANGED <<row_src, row_in, row_obj, coreVars, htmlVars,
                   appsVars, mainVars, concVars, flagVars>>

NextRow == IterCsv \/ IterJsonl \/ WriteRow

SpecRow == InitRow /\ [][NextRow]_vars

(***************************************************************************)
(* Claims about _get_first and the keys of the written records             *)
(***************************************************************************)
\* Two key names are the same up to letter case
SameName(a, b) == upper(a) = upper(b)
\* The value the row binds to a name, letter case aside (the last column of
\* that name counts); null when the row has no such column
Bound(name) ==
    LET I == {i \in 1..Len(row_in) : SameName(row_in[i][1], name)}
    IN  IF I = {} THEN Null
        ELSE row_in[CHOOSE i \in I : \A j \in I : j <= i][2]
\* The value of the first candidate among those at the positions in P
FirstOf(cs, P) ==
    IF P = {} THEN Null
    ELSE Bound(cs[CHOOSE c \in P : \A d \in P : c <= d])

\* C11 as stated: _get_first returns the value of the first candidate whose
\* name is a key of the mapping, letter case aside, and null only when no
\* candidate is a key of the mapping.
C11_FirstPresentCandidate ==
    (row_src = "csv" /\ row_obj # <<>>) =>
        \A k \in DOMAIN Candidates :
            LET cs == Candidates[k]
                Present == {c \in 1..Len(cs) :
                               \E i \in 1..Len(row_in) :
                                   SameName(row_in[i][1], cs[c])}
            IN  /\ row_obj[1][k] = FirstOf(cs, Present)
                /\ row_obj[1][k] = Null => Present = {}

\* C11: _get_first returns the value of the first candidate, in priority
\* order, that the mapping binds to a value other than null, letter case of
\* the keys aside; it returns null when no candidate is bound to a value
\* other than null.  A candidate bound to null is passed over.
C11_FirstNonNullCandidate ==
    (row_src = "csv" /\ row_obj # <<>>) =>
        \A k \in DOMAIN Candidates :
            LET cs == Candidates[k]
                NonNull == {c \in 1..Len(cs) : Bound(cs[c]) # Null}
            IN  row_obj[1][k] = FirstOf(cs, NonNull)

\* C11 witness: a row "5" under the header rating,score binds score to null
\* and rating to "5"; the score of the normalized row is "5".
C11_Witness ==
    /\ row_src = "csv"
    /\ row_in = <<<<<<"r","a","t","i","n","g">>, JStr(<<"5">>)>>, <<<<"s","c","o","r","e">>, Null>>>>
    /\ row_obj # <<>>
    /\ row_obj[1].score = JStr(<<"5">>)

\* The keys of a ProcessedReviewRecord
CanonicalKeys ==
    {"reviewId", "userName", "userImage", "content", "score", "thumbsUpCount",
     "reviewCreatedVersion", "at", "at_iso", "at_epoch", "replyContent",
     "repliedAt", "appVersion", "appId"}

\* C18: every record transform_reviews writes has exactly the canonical keys,
\* whether the row came from a CSV or from a JSONL file.
C18_CanonicalKeySet ==
    row_out # <<>> => DOMAIN row_out[1] = CanonicalKeys

(***************************************************************************)
(* transform_data.py: strip_html                                           *)
(*                                                                         *)
(* Of the character references html.unescape knows, the texts of the model *)
(* hold the named ones for & < > , with or without the closing semicolon.  *)
(***************************************************************************)
\* The html5 table of html.unescape, as far as the model's texts use it
Html5Names == {<<"a","m","p",";">>, <<"a","m","p">>, <<"l","t",";">>, <<"l","t">>, <<"g","t",";">>, <<"g","t">>}
Html5(name) ==
    CASE name[1] = "a" -> <<"&">>
      [] name[1] = "l" -> <<"<">>
      [] OTHER -> <<">">>

\* The characters a named reference is made of: [^\t\n\f <&#;]
IsRefChar(c) == c \notin {" ", "<", "&", ";"}

\* The number of reference characters of s from position i on, at most 32
RECURSIVE RefLen(_, _)
RefLen(s, i) ==
    IF i > Len(s) \/ ~IsRefChar(s[i]) THEN 0
    ELSE LET n == RefLen(s, i + 1) IN IF n >= 32 THEN 32 ELSE n + 1

\* html.unescape's replace_charref on the text after the ampersand: the
\* reference itself, else its longest prefix of two or more characters that
\* is a known name, else the text as it stands.
replace_charref(ref) ==
    IF ref \in Html5Names THEN Html5(ref)
    ELSE LET P == {x \in 2..(Len(ref) - 1) : SubSeq(ref, 1, x) \in Html5Names}
         IN  IF P = {} THEN <<"&">> \o ref
             ELSE LET x == CHOOSE y \in P : \A z \in P : z <= y
                  IN  Html5(SubSeq(ref, 1, x)) \o SubSeq(ref, x + 1, Len(ref))

\* html.unescape(s) from position i on
RECURSIVE unescape_from(_, _)
unescape_from(s, i) ==
    IF i > Len(s) THEN <<>>
    ELSE IF s[i] # "&" THEN <<s[i]>> \o unescape_from(s, i + 1)
    ELSE LET n == RefLen(s, i + 1)
             m == IF n > 0 /\ i + n + 1 <= Len(s) /\ s[i + n + 1] = ";"
                  THEN n + 1 ELSE n
         IN  IF n = 0 THEN <<"&">> \o unescape_from(s, i + 1)
             ELSE replace_charref(SubSeq(s, i + 1, i + m))
                      \o unescape_from(s, i + m + 1)

unescape(s) == unescape_from(s, 1)

\* re.sub(r"<[^>]+>", "", t) from position i on: a "<" followed by one or
\* more characters other than ">" and then ">" is dropped with them.
RECURSIVE remove_tags_from(_, _)
remove_tags_from(t, i) ==
    IF i > Len(t) THEN <<>>
    ELSE LET closes == {j \in (i + 1)..Len(t) : t[j] = ">"}
             j == IF closes = {} THEN 0
                  ELSE CHOOSE a \in closes : \A b \in closes : a <= b
         IN  IF t[i] = "<" /\ j >= i + 2
             THEN remove_tags_from(t, j + 1)
             ELSE <<t[i]>> \o remove_tags_from(t, i + 1)

remove_tags(t) == remove_tags_from(t, 1)

\* re.sub(r"\s+", " ", t): each run of whitespace becomes one space
collapse_ws(t) ==
    SelectSeq([i \in 1..Len(t) |->
                   IF IsSpace(t[i]) /\ i > 1 /\ IsSpace(t[i - 1])
                   THEN "" ELSE t[i]],
              LAMBDA c : c # "")

\* strip_html with the tags removed before the entities are unescaped
strip_html_tags_first(text) ==
    IF text = Null THEN <<>>
    ELSE strip(collapse_ws(unescape(remove_tags(text.s))))

\* strip_html
strip_html(text) ==
    IF text = Null THEN <<>>
    ELSE strip(collapse_ws(remove_tags(unescape(text.s))))

(***************************************************************************)
(* SpecHtml: strip_html applied to one text                                *)
(***************************************************************************)
MaxPieces == 3

\* The pieces the texts are put together from
Pieces ==
    {<<"<","b",">">>, <<"<","/","b",">">>, <<"G","r","e","a","t">>, <<"a","p","p">>, <<"f","u","n">>, <<" ">>,
     <<"&","a","m","p",";">>, <<"&","l","t",";">>, <<"&","g","t",";">>, <<"&">>, <<"<">>, <<">">>, <<"l","t">>}

RECURSIVE Concat(_)
Concat(ps) == IF ps = <<>> THEN <<>> ELSE Head(ps) \o Concat(Tail(ps))

\* <b>Great</b> app &amp; fun
GreatAppFun ==
    Concat(<<<<"<","b",">">>, <<"G","r","e","a","t">>, <<"<","/","b",">">>, <<" ">>, <<"a","p","p">>, <<" ">>, <<"&","a","m","p",";">>,
             <<" ">>, <<"f","u","n">>>>)

HtmlTexts ==
    {JStr(Concat(ps)) : ps \in SeqsUpTo(Pieces, MaxPieces)}
    \cup {JStr(GreatAppFun), Null}

InitHtml ==
    /\ html_in \in HtmlTexts
    /\ html_out = <<>>
    /\ CoreIdle /\ RowIdle /\ AppsIdle /\ MainIdle /\ ConcIdle /\ FlagIdle

StripHtml ==
    /\ html_out = <<>>
    /\ html_out' = <<strip_html(html_in)>>
    /\ UNCHANGED <<html_in, coreVars, rowVars, appsVars, mainVars, concVars, flagVars>>

NextHtml == StripHtml

SpecHtml == InitHtml /\ [][NextHtml]_vars

(***************************************************************************)
(* Claims about strip_html                                                 *)
(***************************************************************************)
\* A tag: "<", one or more characters other than ">", then ">"
HasTag(r) ==
    \E i \in 1..Len(r) : \E j \in (i + 2)..Len(r) :
        /\ r[i] = "<" /\ r[j] = ">"
        /\ \A k \in (i + 1)..(j - 1) : r[k] # ">"
HasDoubleSpace(r) == \E i \in 1..(Len(r) - 1) : r[i] = " " /\ r[i + 1] = " "
HasEdgeSpace(r) == r # <<>> /\ (r[1] = " " \/ r[Len(r)] = " ")
\* The text is made of letters and spaces only: no entity, no tag
IsPlain(s) == \A i \in 1..Len(s) : s[i] \notin {"&", "<", ">", ";"}
NonSpace(s) == SelectSeq(s, LAMBDA c : c # " ")

\* C20: the text strip_html returns holds no tag, no two adjacent spaces and
\* no leading or trailing space; a text without entities and tags keeps its
\* characters other than spaces, in order; <b>Great</b> app &amp; fun gives
\* Great app & fun; None gives the empty text.
C20_StripHtmlClean ==
    html_out # <<>> =>
        LET r == html_out[1]
        IN  /\ ~HasTag(r) /\ ~HasDoubleSpace(r) /\ ~HasEdgeSpace(r)
            /\ html_in = Null => r = <<>>
            /\ (html_in # Null /\ IsPlain(html_in.s)) => NonSpace(r) = NonSpace(html_in.s)
            /\ html_in = JStr(GreatAppFun) => r = <<"G","r","e","a","t"," ","a","p","p"," ","&"," ","f","u","n">>

\* C20 witness: <b>Great</b> app &amp; fun has been reduced to Great app & fun.
C20_Witness ==
    /\ html_in = JStr(GreatAppFun)
    /\ html_out = <<<<"G","r","e","a","t"," ","a","p","p"," ","&"," ","f","u","n">>>>

(***************************************************************************)
(* transform_data.py: normalize_installs, epoch_to_iso, transform_apps     *)
(*                                                                         *)
(* An element of the raw apps list is [kind, obj] like a line of the raw   *)
(* reviews file: kind "dict" with the object, or "scalar" for a JSON value *)
(* dict() refuses.  A step that can raise gives [raised, ...].             *)
(***************************************************************************)
\* a JSON array whose items are looked at: each item is [kind, obj]
JArr(items) == [t |-> "arr", items |-> items]

\* int(v) raises (ValueError, TypeError or OverflowError) for a v that is
\* not None
IntRaises(v) == v # Null /\ safe_int(v) = Null

\* normalize_installs: [raised, app]
normalize_installs(app) ==
    LET min_installs == Get(app, "minInstalls")
        real_installs == Get(app, "realInstalls")
        installs_str == Get(app, "installs")
        digits == IF installs_str.t = "str"
                  THEN SelectSeq(installs_str.s, IsDigit) ELSE <<>>
        derived == IF ~Truthy(min_installs) /\ digits # <<>>
                   THEN JInt(NumAt(digits, 1, Len(digits)))
                   ELSE min_installs
    IN  [raised |-> IntRaises(derived) \/ IntRaises(real_installs),
         app |-> [k \in DOMAIN app \cup {"minInstalls", "realInstalls"} |->
                     CASE k = "minInstalls" -> safe_int(derived)
                       [] k = "realInstalls" -> safe_int(real_installs)
                       [] OTHER -> app[k]]]

\* parse_epoch_int
parse_epoch_int(ts) == safe_int(ts)

\* datetime.fromtimestamp(e, tz=timezone.utc)
fromtimestamp(e) ==
    LET days == e \div 86400
        secs == e % 86400
        a == 1970 + (days \div 366)
        b == 1970 + (days \div 365)
        lo == (IF a < b THEN a ELSE b) - 1
        hi == (IF a < b THEN b ELSE a) + 1
        Y == CHOOSE y \in lo..hi :
                 DaysBeforeYear(y) <= days /\ days < DaysBeforeYear(y + 1)
        rest == days - DaysBeforeYear(Y)
        m == CHOOSE n \in 1..12 :
                 /\ DaysBeforeMonth(Y, n) <= rest
                 /\ rest < DaysBeforeMonth(Y, n) + DaysInMonth(Y, n)
    IN  [Y |-> Y, m |-> m, d |-> rest - DaysBeforeMonth(Y, m) + 1,
         H |-> secs \div 3600, M |-> (secs % 3600) \div 60, S |-> secs % 60]

\* epoch_to_iso
epoch_to_iso(e) ==
    IF e = Null \/ e.n = 0 THEN Null
    ELSE JStr(isoformat(fromtimestamp(e.n)))

\* parse_human_datetime on whatever app.get returned: a value that is not
\* falsy and not a str reaches s.strip() and raises.  [raised, val]
parse_human_datetime_any(v) ==
    IF ~Truthy(v) THEN [raised |-> FALSE, val |-> Null]
    ELSE IF v.t = "str" THEN [raised |-> FALSE, val |-> parse_human_datetime(v.s)]
    ELSE [raised |-> TRUE, val |-> Null]

\* [c.get(key) for c in cats if isinstance(c, dict) and c.get(key)]
flatten(cats, key) ==
    LET kept == SelectSeq(cats, LAMBDA c : c.kind = "dict" /\ Truthy(Get(c.obj, key)))
    IN  JArr([i \in 1..Len(kept) |-> kept[i].obj[key]])

\* The body of the loop of transform_apps once normalize_installs and the two
\* parse_human_datetime calls have returned: [raised, app]
transform_app_dates(app0, inst, released, lastUpdatedOn) ==
    LET desc == Or(Or(Get(app0, "descriptionHTML"), Get(app0, "description")), JStr(<<>>))
        app1 == inst.app
        cats == Or(Get(app1, "categories"), JArr(<<>>))
        items == IF cats.t = "arr" THEN cats.items ELSE <<>>
    IN  [raised |-> \/ desc.t # "str"                    \* html.unescape
                    \/ inst.raised
                    \/ released.raised \/ lastUpdatedOn.raised
                    \/ cats.t \notin {"arr", "str"},     \* for c in cats
         app |-> [k \in DOMAIN app1 \cup
                        {"description_text", "updated_iso", "released_iso",
                         "lastUpdatedOn_iso", "category_ids", "category_names"} |->
                     CASE k = "description_text" ->
                              IF desc.t = "str" THEN JStr(strip_html(desc)) ELSE Null
                       [] k = "updated_iso" ->
                              epoch_to_iso(parse_epoch_int(Get(app1, "updated")))
                       [] k = "released_iso" -> released.val
                       [] k = "lastUpdatedOn_iso" -> lastUpdatedOn.val
                       [] k = "category_ids" -> flatten(items, "id")
                       [] k = "category_names" -> flatten(items, "name")
                       [] OTHER -> app1[k]]]

\* app with its install counts normalized: the two dates are parsed from it
transform_app_installs(app0, inst) ==
    transform_app_dates(app0, inst,
                        parse_human_datetime_any(Get(inst.app, "released")),
                        parse_human_datetime_any(Get(inst.app, "lastUpdatedOn")))

\* The body of the loop of transform_apps on one element: [raised, app]
transform_app(a) ==
    IF a.kind # "dict" THEN [raised |-> TRUE, app |-> a.obj]    \* dict(a)
    ELSE transform_app_installs(a.obj, normalize_installs(a.obj))

(***************************************************************************)
(* SpecApps: transform_apps on one raw apps file                           *)
(***************************************************************************)
MaxApps == 2

\* An app holding the given install fields; a field in `absent` is missing.
RawApp(min_installs, real_installs, installs, absent) ==
    [kind |-> "dict",
     obj |-> [k \in {"appId", "minInstalls", "realInstalls", "installs"} \ absent |->
                 CASE k = "appId" -> JStr(<<"a","p","p",".","a">>)
                   [] k = "minInstalls" -> min_installs
                   [] k = "realInstalls" -> real_installs
                   [] OTHER -> installs]]

\* Raw minInstalls values: numbers as JSON holds them, text as CSV holds them
RawMins ==
    {Null, JInt(0), JInt(1000), JInt(-5), JFloat(1500), JStr(<<"5","0","0">>),
     JStr(<<>>), JStr(<<"a","b","c">>)}
RawReals == {Null, JInt(2000), JInt(-1), JStr(<<>>), JStr(<<"N","/","A">>), JStr(<<"3","0","0","0">>)}
RawInstalls == {JStr(<<"1",",","0","0","0","+">>), JStr(<<>>), JStr(<<"V","a","r","i","e","s">>), JInt(5)}

\* An app with the fields transform_apps reads besides the install counts
RichApp ==
    [kind |-> "dict",
     obj |-> [appId |-> JStr(<<"a","p","p",".","b">>),
              descriptionHTML |-> JStr(GreatAppFun),
              installs |-> JStr(<<"1",",","0","0","0","+">>),
              updated |-> JInt(1762610054),
              released |-> JStr(<<"J","a","n"," ","5",","," ","2","0","2","6">>),
              categories |-> JArr(<<[kind |-> "dict",
                                     obj |-> [id |-> JStr(<<"G","A","M","E">>),
                                              name |-> JStr(<<"G","a","m","e">>)]],
                                    [kind |-> "scalar", obj |-> NoObj],
                                    [kind |-> "dict",
                                     obj |-> [name |-> JStr(<<"T","o","o","l","s">>)]]>>)]]
\* An app whose `released` is a number
OddApp ==
    [kind |-> "dict",
     obj |-> [appId |-> JStr(<<"a","p","p",".","b">>), released |-> JInt(2026)]]

RawApps ==
    {RawApp(mi, Null, Null, {"realInstalls", "installs"}) : mi \in RawMins}
    \cup {RawApp(mi, Null, JStr(<<"1",",","0","0","0","+">>), {"realInstalls"}) : mi \in RawMins}
    \cup {RawApp(Null, ri, Null, {"minInstalls", "installs"}) : ri \in RawReals}
    \cup {RawApp(mi, Null, ins, {"realInstalls"}) :
              mi \in {Null, JInt(0)}, ins \in RawInstalls}
    \cup {RawApp(Null, Null, Null, {"minInstalls", "realInstalls", "installs"}),
          RichApp, OddApp, [kind |-> "scalar", obj |-> NoObj]}

\* What out_path may hold before the run
OldApps == File(<<[appId |-> JStr(<<"o","l","d">>)]>>)

InitApps ==
    /\ apps_raw \in SeqsUpTo(RawApps, MaxApps)
    /\ apps_pc = "loop"
    /\ apps_pos = 0
    /\ processed = <<>>
    /\ apps_out \in {Absent, OldApps}
    /\ CoreIdle /\ RowIdle /\ HtmlIdle /\ MainIdle /\ ConcIdle /\ FlagIdle

\* One pass of the loop: the element is transformed and appended; an
\* exception leaves transform_apps before anything is written.
AppStep ==
    /\ apps_pc = "loop"
    /\ apps_pos < Len(apps_raw)
    /\ apps_pos' = apps_pos + 1
    /\ LET r == transform_app(apps_raw[apps_pos + 1])
       IN  IF r.raised
           THEN apps_pc' = "failed" /\ UNCHANGED processed
           ELSE processed' = Append(processed, r.app) /\ UNCHANGED apps_pc
    /\ UNCHANGED <<apps_raw, apps_out, coreVars, rowVars, htmlVars, mainVars, concVars, flagVars>>

\* The loop is over: out_path is opened for writing and the list is dumped.
AppsWrite ==
    /\ apps_pc = "loop"
    /\ apps_pos = Len(apps_raw)
    /\ apps_out' = File(processed)
    /\ apps_pc' = "done"
    /\ UNCHANGED <<apps_raw, apps_pos, processed, coreVars, rowVars, htmlVars,
                   mainVars, concVars, flagVars>>

NextApps == AppStep \/ AppsWrite

SpecApps == InitApps /\ [][NextApps]_vars

(***************************************************************************)
(* Claims about transform_apps                                             *)
(***************************************************************************)
NullOrNonNegativeInt(v) == v = Null \/ (v.t = "int" /\ v.n >= 0)

\* C12: in every record transform_apps has produced, minInstalls and
\* realInstalls are each null or a non-negative integer.
C12_InstallsNullOrNonNegative ==
    \A i \in 1..Len(processed) :
        /\ NullOrNonNegativeInt(processed[i].minInstalls)
        /\ NullOrNonNegativeInt(processed[i].realInstalls)

\* C13: when transform_apps has ended, out_path holds one record per element
\* of the raw list, in the order of the list, the i-th made from the i-th
\* element, whatever the fields of the elements hold.
C13_OneRecordPerInputInOrder ==
    apps_pc \in {"done", "failed"} =>
        /\ apps_out.exists
        /\ Len(apps_out.lines) = Len(apps_raw)
        /\ \A i \in 1..Len(apps_raw) :
              apps_out.lines[i] = transform_app(apps_raw[i]).app

(***************************************************************************)
(* SpecMain: the entry points against the files they need                  *)
(*   transform_data.main, run_pipeline_c.main, compute_app_kpis.main,      *)
(*   compute_daily_metrics.main, flag_inconsistent_sentiment.main          *)
(*                                                                         *)
(* An input file is "absent", "good" (every record is processed) or "bad"  *)
(* (it holds a record the component raises on: an element or line that is  *)
(* JSON but not an object).  Output files are known by name; `touched`     *)
(* collects the ones the run has created or written.                       *)
(***************************************************************************)
Entries == {"transform_data", "run_pipeline_c", "compute_app_kpis",
            "compute_daily_metrics", "flag_inconsistent_sentiment"}
FileStates == {"absent", "good", "bad"}

RawAppsPath == "data/raw/apps_metadata_raw.json"
RawReviewsPath == "data/raw/user_reviews_raw.jsonl"
ProcAppsPath == "data/processed/apps_metadata_processed.json"
ProcReviewsPath == "data/processed/user_reviews_processed.jsonl"
TmpReviewsPath == "data/processed/user_reviews_processed.jsonl.tmp"
KpiPath == "data/processed/app_kpis.csv"
DailyPath == "data/processed/daily_metrics.csv"
FlaggedPath == "data/processed/inconsistent_sentiment_reviews.csv"

InitMain ==
    /\ entry \in Entries
    /\ raw_apps \in FileStates
    /\ raw_reviews \in FileStates
    /\ proc_reviews \in FileStates
    /\ main_pc = "start"
    /\ touched = {}
    /\ main_err = ""
    /\ CoreIdle /\ RowIdle /\ HtmlIdle /\ AppsIdle /\ ConcIdle /\ FlagIdle

\* main() up to its first check or call; ensure_dirs makes the directory of
\* the processed files, no file.
MainStart ==
    /\ main_pc = "start"
    /\ main_pc' = CASE entry = "transform_data" -> "transform_apps"
                    [] entry = "run_pipeline_c" -> "check_raw"
                    [] OTHER -> "check_processed"
    /\ UNCHANGED <<entry, raw_apps, raw_reviews, proc_reviews, touched, main_err,
                   coreVars, rowVars, htmlVars, appsVars, concVars, flagVars>>

\* run_pipeline_c.main: the two os.path.exists checks
CheckRaw ==
    /\ main_pc = "check_raw"
    /\ IF raw_apps = "absent"
       THEN main_pc' = "failed" /\ main_err' = RawAppsPath
       ELSE IF raw_reviews = "absent"
       THEN main_pc' = "failed" /\ main_err' = RawReviewsPath
       ELSE main_pc' = "transform_apps" /\ UNCHANGED main_err
    /\ UNCHANGED <<entry, raw_apps, raw_reviews, proc_reviews, touched,
                   coreVars, rowVars, htmlVars, appsVars, concVars, flagVars>>

\* transform_apps(apps_in, apps_out): open(in_path) raises FileNotFoundError
\* for a missing file; a record that raises ends the call before out_path is
\* opened.
CallTransformApps ==
    /\ main_pc = "transform_apps"
    /\ CASE raw_apps = "absent" ->
                main_pc' = "failed" /\ main_err' = RawAppsPath /\ UNCHANGED touched
         [] raw_apps = "bad" ->
                main_pc' = "failed" /\ UNCHANGED <<main_err, touched>>
         [] OTHER ->
                /\ touched' = touched \cup {ProcAppsPath}
                /\ main_pc' = "transform_reviews"
                /\ UNCHANGED main_err
    /\ UNCHANGED <<entry, raw_apps, raw_reviews, proc_reviews,
                   coreVars, rowVars, htmlVars, appsVars, concVars, flagVars>>

\* transform_reviews(reviews_in, reviews_out): the existence check, then the
\* temporary file is written and renamed onto the destination; a record that
\* raises ends the call with the temporary file written.
CallTransformReviews ==
    /\ main_pc = "transform_reviews"
    /\ CASE raw_reviews = "absent" ->
                /\ main_pc' = "failed" /\ main_err' = RawReviewsPath
                /\ UNCHANGED <<touched, proc_reviews>>
         [] raw_reviews = "bad" ->
                /\ main_pc' = "failed"
                /\ touched' = touched \cup {TmpReviewsPath}
                /\ UNCHANGED <<main_err, proc_reviews>>
         [] OTHER ->
                /\ touched' = touched \cup {TmpReviewsPath, ProcReviewsPath}
                /\ proc_reviews' = "good"
                /\ main_pc' = IF entry = "run_pipeline_c"
                              THEN "compute_app_kpis" ELSE "done"
                /\ UNCHANGED main_err
    /\ UNCHANGED <<entry, raw_apps, raw_reviews,
                   coreVars, rowVars, htmlVars, appsVars, concVars, flagVars>>

\* main() of an aggregator or of the flagger: the os.path.exists check
CheckProcessed ==
    /\ main_pc = "check_processed"
    /\ IF proc_reviews = "absent"
       THEN main_pc' = "failed" /\ main_err' = ProcReviewsPath
       ELSE main_pc' = entry /\ UNCHANGED main_err
    /\ UNCHANGED <<entry, raw_apps, raw_reviews, proc_reviews, touched,
                   coreVars, rowVars, htmlVars, appsVars, concVars, flagVars>>

\* compute_app_kpis(reviews_out, app_kpis_out): the file is read to its end,
\* then the CSV is written.
CallComputeAppKpis ==
    /\ main_pc = "compute_app_kpis"
    /\ IF proc_reviews = "bad"
       THEN main_pc' = "failed" /\ UNCHANGED touched
       ELSE /\ touched' = touched \cup {KpiPath}
            /\ main_pc' = IF entry = "run_pipeline_c"
                          THEN "compute_daily_metrics" ELSE "done"
    /\ UNCHANGED <<entry, raw_apps, raw_reviews, proc_reviews, main_err,
                   coreVars, rowVars, htmlVars, appsVars, concVars, flagVars>>

\* compute_daily_metrics(reviews_out, daily_metrics_out)
CallComputeDailyMetrics ==
    /\ main_pc = "compute_daily_metrics"
    /\ IF proc_reviews = "bad"
       THEN main_pc' = "failed" /\ UNCHANGED touched
       ELSE touched' = touched \cup {DailyPath} /\ main_pc' = "done"
    /\ UNCHANGED <<entry, raw_apps, raw_reviews, proc_reviews, main_err,
                   coreVars, rowVars, htmlVars, appsVars, concVars, flagVars>>

\* flag_inconsistent_sentiment.main after its check: the file is read to its
\* end, then the CSV is written.
FlagReviews ==
    /\ main_pc = "flag_inconsistent_sentiment"
    /\ IF proc_reviews = "bad"
       THEN main_pc' = "failed" /\ UNCHANGED touched
       ELSE touched' = touched \cup {FlaggedPath} /\ main_pc' = "done"
    /\ UNCHANGED <<entry, raw_apps, raw_reviews, proc_reviews, main_err,
                   coreVars, rowVars, htmlVars, appsVars, concVars, flagVars>>

NextMain ==
    \/ MainStart \/ CheckRaw \/ CallTransformApps \/ CallTransformReviews
    \/ CheckProcessed \/ CallComputeAppKpis \/ CallComputeDailyMetrics
    \/ FlagReviews

SpecMain == InitMain /\ [][NextMain]_vars

(***************************************************************************)
(* Claims about missing input files                                        *)
(***************************************************************************)
\* The input files the entry point needs and does not find
MissingInputs ==
    IF entry \in {"transform_data", "run_pipeline_c"}
    THEN {p \in {RawAppsPath, RawReviewsPath} :
             \/ p = RawAppsPath /\ raw_apps = "absent"
             \/ p = RawReviewsPath /\ raw_reviews = "absent"}
    ELSE {p \in {ProcReviewsPath} : proc_reviews = "absent"}

\* C14: in a run that lacks a required input file, no processed or output
\* file is ever created or written, the run does not complete, and when it
\* has failed for the missing file the error names a missing path.
C14_MissingInputTouchesNothing ==
    MissingInputs # {} =>
        /\ touched = {}
        /\ main_pc # "done"
        /\ main_err # "" => main_err \in MissingInputs

(***************************************************************************)
(* SpecReaders: the three readers of the processed reviews file, one after *)
(* the other: compute_app_kpis, compute_daily_metrics, then the main of    *)
(* flag_inconsistent_sentiment                                             *)
(***************************************************************************)
\* A processed review with a content
ReviewWithContent ==
    [reviewId |-> JStr(<<"r","1">>), appId |-> JStr(AppB), score |-> JInt(5),
     content |-> JStr(<<"t","e","r","r","i","b","l","e"," ","a","p","p">>), at_iso |-> JStr(Iso1010), at |-> Null]

ReaderLines == ProcLines \cup {[kind |-> "json", obj |-> ReviewWithContent]}

\* fieldnames of inconsistent_sentiment_reviews.csv
FlagFields == <<"reviewId", "appId", "score", "content">>

InitReaders ==
    /\ proc_file \in SeqsUpTo(ReaderLines, MaxRecs)
    /\ agg_pc = "kpi_read" /\ agg_pos = 0
    /\ aggregates = <<>> /\ kpi_csv = Absent
    /\ daily = <<>> /\ daily_csv = Absent
    /\ flag_pc = "read" /\ flag_pos = 0 /\ flag_rows = <<>> /\ flag_csv = Absent
    /\ RecordIdle /\ TransformIdle /\ SentIdle
    /\ RowIdle /\ HtmlIdle /\ AppsIdle /\ MainIdle /\ ConcIdle

\* flag_inconsistent_sentiment.main: one pass of the reading loop.  A blank
\* line is skipped; json.loads stands outside any try block, so a line that
\* is not JSON raises out of main.
FlagLine ==
    /\ agg_pc = "done"
    /\ flag_pc = "read"
    /\ flag_pos < Len(proc_file)
    /\ flag_pos' = flag_pos + 1
    /\ LET line == proc_file[flag_pos + 1]
           obj == line.obj
       IN  CASE line.kind = "blank" -> UNCHANGED <<flag_pc, flag_rows>>
             [] line.kind = "garbage" ->
                    flag_pc' = "failed" /\ UNCHANGED flag_rows
             [] OTHER ->
                    /\ flag_rows' =
                           IF is_contradictory(obj)
                           THEN Append(flag_rows,
                                       [reviewId |-> Get(obj, "reviewId"),
                                        appId |-> Get(obj, "appId"),
                                        score |-> Get(obj, "score"),
                                        content |-> Get(obj, "content")])
                           ELSE flag_rows
                    /\ UNCHANGED flag_pc
    /\ UNCHANGED <<flag_csv, coreVars, rowVars, htmlVars, appsVars, mainVars, concVars>>

\* flag_inconsistent_sentiment.main: the end of the file is reached and the
\* CSV is written.
FlagWrite ==
    /\ agg_pc = "done"
    /\ flag_pc = "read"
    /\ flag_pos = Len(proc_file)
    /\ flag_csv' = CsvFile(FlagFields, flag_rows)
    /\ flag_pc' = "done"
    /\ UNCHANGED <<flag_pos, flag_rows, coreVars, rowVars, htmlVars, appsVars,
                   mainVars, concVars>>

NextReaders == NextAgg \/ FlagLine \/ FlagWrite

SpecReaders == InitReaders /\ [][NextReaders]_vars

(***************************************************************************)
(* Claims about malformed records and empty inputs                         *)
(***************************************************************************)
\* C15: a run of transform_reviews fails only for a missing input file: with
\* the input file present, whatever its lines hold, the run is never ended
\* by an exception.
C15_MalformedNeverAborts ==
    pc = "failed" => ~in_exists

HeaderOnly(csv, fieldnames) ==
    csv.exists /\ csv.header = fieldnames /\ csv.lines = <<>>

\* C16: on an empty processed reviews file no reader fails, and each one, once
\* past its reading loop, has written a CSV made of its header row and no
\* data row.
C16_EmptyInputHeaderOnly ==
    proc_file = <<>> =>
        /\ flag_pc # "failed"
        /\ agg_pc \in {"daily_read", "done"} => HeaderOnly(kpi_csv, KpiFields)
        /\ agg_pc = "done" => HeaderOnly(daily_csv, DailyFields)
        /\ flag_pc = "done" => HeaderOnly(flag_csv, FlagFields)

\* C16 witness: the three readers have finished on the empty file and the
\* three CSV files hold their header rows only.
C16_Witness ==
    /\ proc_file = <<>>
    /\ agg_pc = "done" /\ flag_pc = "done"
    /\ kpi_csv = [exists |-> TRUE, header |-> KpiFields, lines |-> <<>>]
    /\ daily_csv = [exists |-> TRUE, header |-> DailyFields, lines |-> <<>>]
    /\ flag_csv = [exists |-> TRUE, header |-> FlagFields, lines |-> <<>>]

(***************************************************************************)
(* Claims about the timestamps of a record (SpecRecord)                    *)
(***************************************************************************)
\* The calendar, written out: the lengths of the months of a common year
MonthLengths == <<31, 28, 31, 30, 31, 30, 31, 31, 30, 31, 30, 31>>
LeapYear(y) == y % 4 = 0 /\ (y % 100 # 0 \/ y % 400 = 0)
MonthLength(y, m) == IF m = 2 /\ LeapYear(y) THEN 29 ELSE MonthLengths[m]

\* Days from 1970-01-01 to the first of January of year y, year by year
RECURSIVE DaysToYear(_)
DaysToYear(y) ==
    IF y = 1970 THEN 0
    ELSE IF y > 1970
    THEN DaysToYear(y - 1) + (IF LeapYear(y - 1) THEN 366 ELSE 365)
    ELSE DaysToYear(y + 1) - (IF LeapYear(y) THEN 366 ELSE 365)

\* s has the shape YYYY-MM-DD HH:MM:SS
IsExactShape(s) ==
    /\ Len(s) = 19
    /\ \A i \in {1, 2, 3, 4, 6, 7, 9, 10, 12, 13, 15, 16, 18, 19} : IsDigit(s[i])
    /\ s[5] = "-" /\ s[8] = "-" /\ s[11] = " " /\ s[14] = ":" /\ s[17] = ":"

\* The fields of a text of that shape
FieldsOf(s) ==
    [Y |-> NumAt(s, 1, 4), m |-> NumAt(s, 6, 2), d |-> NumAt(s, 9, 2),
     H |-> NumAt(s, 12, 2), M |-> NumAt(s, 15, 2), S |-> NumAt(s, 18, 2)]

\* The fields denote a date-time (years 1 to 9999)
IsDateTime(f) ==
    /\ f.Y >= 1 /\ f.m \in 1..12 /\ f.d >= 1 /\ f.d <= MonthLength(f.Y, f.m)
    /\ f.H <= 23 /\ f.M <= 59 /\ f.S <= 59

\* Seconds from 1970-01-01T00:00:00Z to the date-time taken as UTC
SecondsSinceEpoch(f) ==
    LET past == {n \in 1..12 : n < f.m}
        days == DaysToYear(f.Y) + SumOver(past, [n \in 1..12 |-> MonthLength(f.Y, n)]) + f.d - 1
    IN  ((days * 24 + f.H) * 60 + f.M) * 60 + f.S

\* C17: for a raw `at` of the shape YYYY-MM-DD HH:MM:SS that denotes a
\* date-time, the record written has at_iso equal to the same date and time
\* as YYYY-MM-DDTHH:MM:SS+00:00, at_epoch equal to the seconds from
\* 1970-01-01T00:00:00Z to that instant taken as UTC, and `at` as it was.
C17_ExactFormRoundTrip ==
    (/\ Written
     /\ "at" \in DOMAIN raw_obj
     /\ raw_obj["at"].t = "str"
     /\ IsExactShape(raw_obj["at"].s)
     /\ IsDateTime(FieldsOf(raw_obj["at"].s))) =>
        LET s == raw_obj["at"].s
        IN  /\ Out["at_iso"] =
                   JStr(SubSeq(s, 1, 10) \o <<"T">> \o SubSeq(s, 12, 19)
                        \o <<"+","0","0",":","0","0">>)
            /\ Out["at_epoch"] = JInt(SecondsSinceEpoch(FieldsOf(s)))
            /\ Out["at"] = raw_obj["at"]

\* C17 witness: the record written for at = "2025-11-08 13:54:14" has
\* at_iso = "2025-11-08T13:54:14+00:00" and at_epoch = 1762610054.
C17_Witness ==
    /\ Written
    /\ "at" \in DOMAIN raw_obj
    /\ raw_obj["at"] = JStr(<<"2","0","2","5","-","1","1","-","0","8"," ","1","3",":","5","4",":","1","4">>)
    /\ Out["at_iso"] = JStr(<<"2","0","2","5","-","1","1","-","0","8","T","1","3",":","5","4",":","1","4","+","0","0",":","0","0">>)
    /\ Out["at_epoch"] = JInt(1762610054)
    /\ Out["at"] = JStr(<<"2","0","2","5","-","1","1","-","0","8"," ","1","3",":","5","4",":","1","4">>)

(***************************************************************************)
(* SpecConc: two runs of transform_reviews on one destination path         *)
(*                                                                         *)
(* Both runs use the temporary path out_path + ".tmp".  The file system is *)
(* a table of paths to inode numbers and a list of inodes; an open file    *)
(* refers to its inode, whatever happens to the path later, and has its    *)
(* own offset.  Files are counted in records (records of one length): a    *)
(* write at an offset past the end of the file leaves a hole before it.    *)
(* What a run has written sits in the buffer of its file object until the  *)
(* buffer fills, at a size the model leaves open, or the file is closed.   *)
(***************************************************************************)
MaxOut == 2

Runs == {1, 2}
\* The records a run may write
OutRecords == {"x", "y"}
\* A stretch of a file that was never written
Hole == "hole"
\* What out_path holds before the runs
OldContent == <<"old">>

\* write(fd, buf) at offset off of a file holding `content`
WriteAt(content, off, buf) ==
    LET end == IF Len(content) > off + Len(buf) THEN Len(content)
               ELSE off + Len(buf)
    IN  [i \in 1..end |->
            IF i > off /\ i <= off + Len(buf) THEN buf[i - off]
            ELSE IF i <= Len(content) THEN content[i]
            ELSE Hole]

InitConc ==
    /\ \/ paths = [tmp |-> 0, dest |-> 0] /\ inodes = <<>>
       \/ paths = [tmp |-> 0, dest |-> 1] /\ inodes = <<OldContent>>
    /\ c_out \in [Runs -> SeqsUpTo(OutRecords, MaxOut)]
    /\ c_pc = [p \in Runs |-> "start"]
    /\ c_fd = [p \in Runs |-> 0]
    /\ c_off = [p \in Runs |-> 0]
    /\ c_buf = [p \in Runs |-> <<>>]
    /\ CoreIdle /\ RowIdle /\ HtmlIdle /\ AppsIdle /\ MainIdle /\ FlagIdle

\* open(tmp_out, "w"): the file at the temporary path is truncated where it
\* is, or created.
COpen(p) ==
    /\ c_pc[p] = "start"
    /\ IF paths.tmp # 0
       THEN /\ inodes' = [inodes EXCEPT ![paths.tmp] = <<>>]
            /\ c_fd' = [c_fd EXCEPT ![p] = paths.tmp]
            /\ UNCHANGED paths
       ELSE /\ inodes' = Append(inodes, <<>>)
            /\ c_fd' = [c_fd EXCEPT ![p] = Len(inodes) + 1]
            /\ paths' = [paths EXCEPT !.tmp = Len(inodes) + 1]
    /\ c_pc' = [c_pc EXCEPT ![p] = "writing"]
    /\ UNCHANGED <<c_off, c_buf, c_out, coreVars, rowVars, htmlVars, appsVars,
                   mainVars, flagVars>>

\* One pass of the loop: fout.write puts the record into the buffer.
CWrite(p) ==
    /\ c_pc[p] = "writing"
    /\ c_off[p] + Len(c_buf[p]) < Len(c_out[p])
    /\ c_buf' = [c_buf EXCEPT
                    ![p] = Append(@, c_out[p][c_off[p] + Len(c_buf[p]) + 1])]
    /\ UNCHANGED <<paths, inodes, c_pc, c_fd, c_off, c_out, coreVars, rowVars,
                   htmlVars, appsVars, mainVars, flagVars>>

\* The buffer is full: its records are written at the offset of the file.
CFlush(p) ==
    /\ c_pc[p] = "writing"
    /\ c_buf[p] # <<>>
    /\ inodes' = [inodes EXCEPT ![c_fd[p]] = WriteAt(@, c_off[p], c_buf[p])]
    /\ c_off' = [c_off EXCEPT ![p] = @ + Len(c_buf[p])]
    /\ c_buf' = [c_buf EXCEPT ![p] = <<>>]
    /\ UNCHANGED <<paths, c_pc, c_fd, c_out, coreVars, rowVars, htmlVars,
                   appsVars, mainVars, flagVars>>

\* The loop is over and the with block closes the file: what is left in the
\* buffer is written.
CClose(p) ==
    /\ c_pc[p] = "writing"
    /\ c_off[p] + Len(c_buf[p]) = Len(c_out[p])
    /\ inodes' = [inodes EXCEPT ![c_fd[p]] = WriteAt(@, c_off[p], c_buf[p])]
    /\ c_off' = [c_off EXCEPT ![p] = @ + Len(c_buf[p])]
    /\ c_buf' = [c_buf EXCEPT ![p] = <<>>]
    /\ c_pc' = [c_pc EXCEPT ![p] = "closed"]
    /\ UNCHANGED <<paths, c_fd, c_out, coreVars, rowVars, htmlVars, appsVars,
                   mainVars, flagVars>>

\* os.replace(tmp_out, out_path): the destination path takes the inode of the
\* temporary path, which is gone afterwards; FileNotFoundError when there is
\* no file at the temporary path.
CReplace(p) ==
    /\ c_pc[p] = "closed"
    /\ IF paths.tmp = 0
       THEN /\ c_pc' = [c_pc EXCEPT ![p] = "failed"]
            /\ UNCHANGED paths
       ELSE /\ paths' = [tmp |-> 0, dest |-> paths.tmp]
            /\ c_pc' = [c_pc EXCEPT ![p] = "done"]
    /\ UNCHANGED <<inodes, c_fd, c_off, c_buf, c_out, coreVars, rowVars, htmlVars,
                   appsVars, mainVars, flagVars>>

NextConc ==
    \E p \in Runs : COpen(p) \/ CWrite(p) \/ CFlush(p) \/ CClose(p) \/ CReplace(p)

SpecConc == InitConc /\ [][NextConc]_vars

(***************************************************************************)
(* Claims about concurrent runs                                            *)
(***************************************************************************)
\* C19: when both runs have ended, however their steps interleaved, neither
\* has failed and the destination holds the complete output of one of them.
C19_RunsIndependent ==
    (\A p \in Runs : c_pc[p] \in {"done", "failed"}) =>
        /\ \A p \in Runs : c_pc[p] = "done"
        /\ paths.dest # 0
        /\ \E p \in Runs : inodes[paths.dest] = c_out[p]

(***************************************************************************)
(* Claims about normalize_installs                                         *)
(***************************************************************************)
IsNumber(v) == v.t \in {"int", "float"}
\* the digits of the `installs` text; none when it is missing or no text
InstallDigits(app) ==
    LET installs_str == Get(app, "installs")
    IN  IF installs_str.t = "str" THEN SelectSeq(installs_str.s, IsDigit) ELSE <<>>
\* minInstalls is missing, null or holds nothing int() turns into a number
NoNumericCount(app) == safe_int(Get(app, "minInstalls")) = Null
\* the element the loop of transform_apps looked at last
LastApp == apps_raw[apps_pos]

\* C21: in every record transform_apps has produced, a numeric minInstalls
\* of the input (0 included) is kept; with no numeric minInstalls and no
\* digit in installs, minInstalls is null; and such an element, whose other
\* install fields are missing, never makes the run fail.
C21_NumericMinInstallsKept ==
    /\ \A i \in 1..Len(processed) :
          LET app == apps_raw[i].obj
              mi == Get(app, "minInstalls")
          IN  /\ IsNumber(mi) => processed[i].minInstalls = safe_int(mi)
              /\ (NoNumericCount(app) /\ InstallDigits(app) = <<>>) =>
                     processed[i].minInstalls = Null
    /\ (apps_pc = "failed" /\ LastApp.kind = "dict") =>
          ~ /\ NoNumericCount(LastApp.obj)
            /\ InstallDigits(LastApp.obj) = <<>>
            /\ DOMAIN LastApp.obj \subseteq {"appId", "minInstalls", "installs"}

(***************************************************************************)
(* Claims about the categories of transform_apps                           *)
(***************************************************************************)
\* a category that is a mapping with a non-empty id and a non-empty name
WellFormedCategory(c) ==
    c.kind = "dict" /\ Truthy(Get(c.obj, "id")) /\ Truthy(Get(c.obj, "name"))

\* C22: in every record transform_apps has produced from an element with a
\* categories list, category_ids and category_names have the same length
\* and hold, position by position, the id and the name of the same category:
\* those of the well-formed categories, in input order.
C22_CategoriesParallel ==
    \A i \in 1..Len(processed) :
        LET cats == Get(apps_raw[i].obj, "categories")
        IN  cats.t = "arr" =>
                LET kept == SelectSeq(cats.items, WellFormedCategory)
                IN  /\ Len(processed[i].category_ids.items) =
                           Len(processed[i].category_names.items)
                    /\ processed[i].category_ids =
                           JArr([j \in 1..Len(kept) |-> kept[j].obj.id])
                    /\ processed[i].category_names =
                           JArr([j \in 1..Len(kept) |-> kept[j].obj.name])

(***************************************************************************)
(* SpecDaily: compute_daily_metrics run on its own (its main), on a        *)
(* processed file whose dates are what transform_reviews can leave there:  *)
(* an ISO instant, or the stripped text of an `at` no format matched.      *)
(***************************************************************************)
MaxDates == 2

Txt0105NoSeconds == <<"2","0","2","5","-","0","1","-","5"," ","0","3",":","0","4">>
TxtSoon == <<"s","o","o","n","-","t","o","-","b","e"," ","a","n","n","o","u","n","c","e","d">>
TxtJan5 == <<"J","a","n"," ","5",","," ","2","0","2","5">>

DateLines ==
    {[kind |-> "json", obj |-> Review(JStr(AppA), JInt(5), JStr(Iso0108), Null)],
     [kind |-> "json", obj |-> Review(JStr(AppA), JInt(1), JStr(Iso1231), Null)],
     [kind |-> "json", obj |-> Review(JStr(AppA), JInt(2), JStr(Txt0109), Null)],
     [kind |-> "json", obj |-> Review(JStr(AppA), JInt(4), Null, JStr(Raw0105))],
     [kind |-> "json", obj |-> Review(JStr(AppA), JInt(3), JStr(Txt0105NoSeconds), JStr(Txt0105NoSeconds))],
     [kind |-> "json", obj |-> Review(JStr(AppB), JInt(3), JStr(TxtSoon), JStr(TxtSoon))],
     [kind |-> "json", obj |-> Review(JStr(AppB), JInt(2), JStr(TxtJan5), JStr(TxtJan5))],
     [kind |-> "json", obj |-> Review(JStr(AppB), JInt(5), Null, JInt(1762610054))],
     [kind |-> "json", obj |-> Review(JStr(AppB), Null, Null, Null)],
     [kind |-> "garbage", obj |-> NoObj]}

InitDaily ==
    /\ proc_file \in SeqsUpTo(DateLines, MaxDates)
    /\ agg_pc = "daily_read" /\ agg_pos = 0
    /\ aggregates = <<>> /\ kpi_csv = Absent
    /\ daily = <<>> /\ daily_csv = Absent
    /\ RecordIdle
    /\ TransformIdle
    /\ SentIdle
    /\ ExtIdle

NextDaily == DailyLine \/ DailyWrite

SpecDaily == InitDaily /\ [][NextDaily]_vars

(***************************************************************************)
(* Claims about _extract_date                                              *)
(***************************************************************************)
\* four digits, dash, two digits, dash, two digits
IsDateShape(s) ==
    /\ Len(s) = 10
    /\ \A i \in {1, 2, 3, 4, 6, 7, 9, 10} : IsDigit(s[i])
    /\ s[5] = "-" /\ s[8] = "-"
\* the at_iso / at value of a record starts with a date, or parses as
\* YYYY-MM-DD HH:MM:SS
Datable(line) ==
    /\ line.kind = "json"
    /\ LET raw == Or(Get(line.obj, "at_iso"), Get(line.obj, "at"))
       IN  /\ raw.t = "str"
           /\ \/ Len(raw.s) >= 10 /\ IsDateShape(SubSeq(raw.s, 1, 10))
              \/ strptime(raw.s, FmtExact).ok
\* the lines compute_daily_metrics has read so far
DailyRead == IF agg_pc = "daily_read" THEN agg_pos ELSE Len(proc_file)

\* C23: every key of the daily table, and every date of daily_metrics.csv,
\* has the shape YYYY-MM-DD; the records counted are exactly those whose
\* at_iso / at value starts with such a date or parses as
\* YYYY-MM-DD HH:MM:SS.
C23_DateKeysHaveDateShape ==
    /\ \A k \in DOMAIN daily : IsDateShape(k)
    /\ \A i \in 1..Len(daily_csv.lines) : IsDateShape(daily_csv.lines[i].date)
    /\ SumOver(DOMAIN daily, [k \in DOMAIN daily |-> daily[k].count_reviews]) =
           Cardinality({i \in 1..DailyRead : Datable(proc_file[i])})

(***************************************************************************)
(* Claims about the max_lines cap of transform_reviews (SpecTransform)     *)
(***************************************************************************)
\* min(n, N) for a cap n, N when max_lines is None
CappedCount ==
    IF max_lines = Null \/ max_lines.n >= Len(Yielded)
    THEN Len(Yielded) ELSE max_lines.n

\* C24: when a run of transform_reviews has ended, the destination holds
\* exactly the first min(n, N) records of the input, in input order, for
\* max_lines = n >= 0 and N parseable records, and all N for max_lines =
\* None; it was put there by the replacement at the end of the run.
C24_CapWritesFirstMin ==
    pc = "done" =>
        /\ replaced
        /\ dest = File([i \in 1..CappedCount |-> transform_record(Yielded[i].obj)])

(***************************************************************************)
(* Claims about the lines transform_reviews keeps (SpecTransform)          *)
(***************************************************************************)
\* C25: when a run of transform_reviews without a cap on an existing JSONL
\* input has ended, the destination holds exactly one line per input line
\* that parses as JSON, directly or from the first { to the last }, in input
\* order; blank lines and lines failing both parses add nothing and do not
\* stop the run.
C25_OneLinePerParseableLine ==
    (max_lines = Null /\ in_exists /\ pc \in {"done", "failed"}) =>
        /\ replaced
        /\ Len(dest.lines) = Len(Yielded)
        /\ \A i \in 1..Len(Yielded) :
              IsMapping(Yielded[i]) => dest.lines[i] = transform_record(Yielded[i].obj)

(***************************************************************************)
(* Claims about AppAgg.update (SpecAgg)                                    *)
(***************************************************************************)
\* the lines compute_app_kpis has read so far
KpiRead == IF agg_pc = "kpi_read" THEN agg_pos ELSE Len(proc_file)
\* the calls of update made so far on the aggregate of app a
UpdateCalls(a) == {i \in RecordsOfApp(a) : i <= KpiRead}

\* the counters are ordered, num_reviews counts the calls, and the two dates
\* are both null or both set with first_date <= last_date
AppAggOrdered(a) ==
    LET g == aggregates[a]
    IN  /\ 0 <= g.low_rated_reviews
        /\ g.low_rated_reviews <= g.rated_reviews
        /\ g.rated_reviews <= g.num_reviews
        /\ g.num_reviews = Cardinality(UpdateCalls(a))
        /\ (g.first_date = Null) <=> (g.last_date = Null)
        /\ g.first_date # Null => ~StrLt(g.last_date.s, g.first_date.s)
\* a step keeps the aggregate of a and moves nothing the wrong way
AppAggMonotone(a) ==
    /\ a \in DOMAIN aggregates'
    /\ LET g == aggregates[a]
           h == aggregates'[a]
       IN  /\ h.num_reviews >= g.num_reviews
           /\ h.rated_reviews >= g.rated_reviews
           /\ h.low_rated_reviews >= g.low_rated_reviews
           /\ g.first_date # Null =>
                  h.first_date # Null /\ ~StrLt(g.first_date.s, h.first_date.s)
           /\ g.last_date # Null =>
                  h.last_date # Null /\ ~StrLt(h.last_date.s, g.last_date.s)

\* C26: after any sequence of update calls every aggregate has
\* 0 <= low_rated_reviews <= rated_reviews <= num_reviews, num_reviews equal
\* to the number of calls, first_date and last_date both null or both set
\* with first_date <= last_date; and no update decreases a counter,
\* increases first_date or decreases last_date.
C26_AppAggInvariants ==
    /\ [](\A a \in DOMAIN aggregates : AppAggOrdered(a))
    /\ [][\A a \in DOMAIN aggregates : AppAggMonotone(a)]_vars

\* C26 witness: an aggregate took three updates, one without a score and one
\* with a low score, on three different dates.
C26_Witness ==
    \E a \in DOMAIN aggregates :
        /\ aggregates[a].num_reviews = 3
        /\ aggregates[a].rated_reviews = 2
        /\ aggregates[a].low_rated_reviews = 1
        /\ aggregates[a].first_date # Null
        /\ aggregates[a].first_date # aggregates[a].last_date

(***************************************************************************)
(* SpecPipeline: run_pipeline_c.main after its two existence checks:       *)
(* transform_apps, transform_reviews, compute_app_kpis and                 *)
(* compute_daily_metrics called one after the other, each on the files the *)
(* one before it left.  The processed reviews path may hold the output of  *)
(* an earlier run.                                                         *)
(***************************************************************************)
MaxPipe == 2

PipeA5 ==
    [appId |-> JStr(AppA), score |-> JInt(5),
     at |-> JStr(<<"2","0","2","5","-","1","1","-","0","8"," ","1","3",":","5","4",":","1","4">>)]
PipeA1 ==
    [appId |-> JStr(AppA), score |-> JStr(<<"1">>),
     at |-> JStr(<<"2","0","2","5","-","1","1","-","0","9"," ","0","8",":","0","0",":","0","0">>)]
\* a review whose `at` is an epoch number: transform_reviews leaves at_iso null
PipeAEpoch == [appId |-> JStr(AppA), score |-> JInt(2), at |-> JInt(1762610054)]
PipeB == [appId |-> JStr(AppB), score |-> JStr(<<"a","b","c">>),
          at |-> JStr(<<"y","e","s","t","e","r","d","a","y">>)]

PipeLines ==
    {[kind |-> "json", obj |-> PipeA5], [kind |-> "json", obj |-> PipeA1],
     [kind |-> "wrapped", obj |-> PipeB], [kind |-> "json", obj |-> PipeAEpoch],
     [kind |-> "garbage", obj |-> NoObj], [kind |-> "scalar", obj |-> NoObj]}
\* the raw reviews files: the epoch-dated review at most once
PipeFiles ==
    {f \in SeqsUpTo(PipeLines, MaxPipe) :
        Cardinality({i \in 1..Len(f) : f[i].obj = PipeAEpoch}) <= 1}
PipeApps == {<<>>, <<RichApp>>, <<RichApp, [kind |-> "scalar", obj |-> NoObj]>>}

InitPipeline ==
    /\ apps_raw \in PipeApps
    /\ apps_pc = "loop" /\ apps_pos = 0 /\ processed = <<>>
    /\ apps_out \in {Absent, OldApps}
    /\ in_file \in PipeFiles
    /\ in_exists = TRUE
    /\ max_lines = Null
    /\ dest \in {Absent, OldDest}
    /\ tmp = Absent
    /\ pc = "off" /\ in_pos = 0 /\ count = 0 /\ run = 1
    /\ dest_at_start = dest /\ first_end = "" /\ replaced = FALSE
    /\ AggIdle
    /\ RecordIdle /\ SentIdle
    /\ RowIdle /\ HtmlIdle /\ MainIdle /\ ConcIdle /\ FlagIdle

\* main reaches transform_reviews(reviews_in, reviews_out): transform_apps
\* has returned
PipeTransformReviews ==
    /\ apps_pc = "done"
    /\ pc = "off"
    /\ pc' = "idle"
    /\ UNCHANGED <<in_exists, in_file, max_lines, dest, tmp, in_pos, count, run,
                   dest_at_start, first_end, replaced, recVars, aggVars, sentVars, extVars>>

\* The lines a reader finds in a JSONL file written with json.dumps: one
\* JSON object per record
ProcessedLines(f) == [i \in 1..Len(f.lines) |-> [kind |-> "json", obj |-> f.lines[i]]]

\* compute_app_kpis called in a `finally`: it runs whether or not
\* transform_reviews returned
PipeComputeAppKpisAnyway ==
    /\ pc \in {"done", "failed"}
    /\ agg_pc = "off"
    /\ proc_file' = ProcessedLines(dest)
    /\ agg_pc' = "kpi_read"
    /\ UNCHANGED <<agg_pos, aggregates, kpi_csv, daily, daily_csv,
                   recVars, trVars, sentVars, extVars>>

\* main reaches compute_app_kpis(reviews_out, app_kpis_out): transform_reviews
\* has returned, and the processed reviews file is opened for reading
PipeComputeAppKpis ==
    /\ pc = "done"
    /\ agg_pc = "off"
    /\ proc_file' = ProcessedLines(dest)
    /\ agg_pc' = "kpi_read"
    /\ UNCHANGED <<agg_pos, aggregates, kpi_csv, daily, daily_csv,
                   recVars, trVars, sentVars, extVars>>

NextPipeline ==
    \/ AppStep \/ AppsWrite
    \/ PipeTransformReviews \/ Start \/ Step \/ EndOfInput \/ Replace
    \/ PipeComputeAppKpis \/ KpiLine \/ KpiWrite
    \/ DailyLine \/ DailyWrite

SpecPipeline == InitPipeline /\ [][NextPipeline]_vars

(***************************************************************************)
(* Claims about run_pipeline_c.main (SpecPipeline)                         *)
(***************************************************************************)
\* C27: transform_reviews starts only once transform_apps has written its
\* output; an aggregator reads only once transform_reviews has replaced the
\* processed file, and what it reads is the complete output of this run;
\* compute_daily_metrics starts only once app_kpis.csv is written, on the
\* same file; and once a step has failed no later step has run or written.
C27_StepsInOrder ==
    /\ pc # "off" => apps_pc = "done" /\ apps_out = File(processed)
    /\ agg_pc # "off" =>
          /\ pc = "done" /\ replaced
          /\ dest = File(CompleteOutput)
          /\ proc_file = ProcessedLines(dest)
    /\ agg_pc \in {"daily_read", "done"} => kpi_csv.exists
    /\ daily_csv.exists => agg_pc = "done"
    /\ apps_pc = "failed" => pc = "off" /\ agg_pc = "off"
    /\ pc = "failed" => agg_pc = "off" /\ dest = dest_at_start
    /\ agg_pc = "failed" => ~kpi_csv.exists /\ daily = <<>> /\ ~daily_csv.exists

\* C27 witness: the run went through its four steps over a stale processed
\* file, and both tables have a row computed from the two records of this run.
C27_Witness ==
    /\ agg_pc = "done"
    /\ dest_at_start = OldDest
    /\ Len(proc_file) = 2
    /\ Len(kpi_csv.lines) >= 1
    /\ Len(daily_csv.lines) >= 1

====
